---------------------------- MODULE Spec2Model ----------------------------
(***************************************************************************)
(* Model of the ABAY/OXPH physics, the deterministic Recalculator          *)
(* (abay_opt/recalc.py), the scheduling Optimizer (abay_opt/optimizer.py)  *)
(* and the physics conversions (abay_opt/physics.py).                      *)
(*                                                                         *)
(* Numbers.  The program computes in IEEE doubles; the model computes in   *)
(* fixed point with two decimals: every flow (cfs), power (MW), elevation  *)
(* (ft) and storage (AF) is an integer number of hundredths, so 0.8 MW is  *)
(* 80 and 1173 ft is 117300.  A product with a decimal coefficient is      *)
(* written coefficient-numerator * x \div coefficient-denominator and      *)
(* rounds down.  A missing value (NaN, None) is the integer NaN below.     *)
(***************************************************************************)
EXTENDS Integers, Sequences, FiniteSets, TLC

NaN == -1000000000

isnan(x) == x = NaN
notna(x) == x # NaN
fillna(x, d) == IF isnan(x) THEN d ELSE x

Min(a, b) == IF a <= b THEN a ELSE b
Max(a, b) == IF a >= b THEN a ELSE b

RECURSIVE SqrtSearch(_, _, _)
SqrtSearch(n, lo, hi) ==
    IF lo >= hi THEN lo
    ELSE LET mid == (lo + hi + 1) \div 2
         IN  IF mid * mid <= n THEN SqrtSearch(n, mid, hi)
                               ELSE SqrtSearch(n, lo, mid - 1)

\* np.sqrt on a value carrying four decimals (a product of two hundredths),
\* the result in hundredths
sqrt(n) == SqrtSearch(n, 0, 46340)

(***************************************************************************)
(* constants.py and utils.py                                               *)
(***************************************************************************)
OXPH_MIN_MW == 80
OXPH_MAX_MW == 580
\* OXPH_RAMP_RATE_MW_PER_MIN * 60.0 = 0.042 * 60 = 2.52 MW per hour
RAMP_MW_PER_HOUR == 252
ABAY_MIN_ELEV_FT == 116800
\* OXPH_MW_TO_CFS_FACTOR = 163.73, as a fraction of 100
OXPH_MW_TO_CFS_FACTOR == 16373
OXPH_MW_TO_CFS_OFFSET == 8300
\* OXPH_HEAD_LOSS_SLOPE = 0.0912, as a fraction of 10000
OXPH_HEAD_LOSS_SLOPE == 912
OXPH_HEAD_LOSS_INTERCEPT == -10142
\* MFRA_MW2_TO_CFS_FACTOR = 0.00943, as a fraction of 100000
MFRA_MW2_TO_CFS_FACTOR == 943
\* MFRA_MW_TO_CFS_FACTOR = 5.6653, as a fraction of 10000
MFRA_MW_TO_CFS_FACTOR == 56653
MFRA_MW_TO_CFS_OFFSET == 1854

\* AF_PER_CFS_HOUR = 3600.0 / 43560.0 = 10 / 121
AF_PER_CFS_HOUR(cfs) == (cfs * 10) \div 121

(***************************************************************************)
(* physics.py: stage-storage curve.  A_COEF*ft^2 + B_COEF*ft + C_COEF is   *)
(* evaluated about the vertex of the parabola, ft = -B_COEF/(2*A_COEF) =   *)
(* 1112.13 ft where the storage is C_COEF - B_COEF^2/(4*A_COEF) =          *)
(* -39.23 AF: the same curve, in a form whose intermediate values fit the  *)
(* model checker's integers.  A_COEF = 0.6311303 is kept to three digits.  *)
(***************************************************************************)
A_COEF == 631
CURVE_VERTEX_FT == 111213
CURVE_VERTEX_AF == -3923

abay_feet_to_af(ft) ==
    LET x == ft - CURVE_VERTEX_FT
    IN  (((x * x) \div 100) * A_COEF) \div 1000 + CURVE_VERTEX_AF

\* mutant: the smaller root of the quadratic
abay_af_to_feet_smaller_root(af) ==
    CURVE_VERTEX_FT - sqrt(Max(((af - CURVE_VERTEX_AF) * 1000) \div A_COEF, 0) * 100)

\* the larger root; disc = b*b - 4*a*c is clamped at zero
abay_af_to_feet(af) ==
    LET disc == Max(((af - CURVE_VERTEX_AF) * 1000) \div A_COEF, 0)
    IN  CURVE_VERTEX_FT + sqrt(disc * 100)

(***************************************************************************)
(* Mode values as they arrive: a number (PI gives 0 / 1), a text, or a     *)
(* missing value.  num is in hundredths.                                   *)
(***************************************************************************)
ModeNum(v) == [kind |-> "num", num |-> v, str |-> ""]
ModeStr(s) == [kind |-> "str", num |-> 0, str |-> s]
ModeNone == [kind |-> "nan", num |-> 0, str |-> ""]

\* Python's float(text): the texts the model uses that parse as a number
ParseFloat(s) ==
    CASE s = "0" -> 0
      [] s = "1" -> 100
      [] s = "0.5" -> 50
      [] s = "0.49" -> 49
      [] s = "2" -> 200
      [] s = "-1" -> -100
      [] OTHER -> NaN

\* str.upper()
upper(s) ==
    CASE s = "gen" -> "GEN"
      [] s = "spill" -> "SPILL"
      [] s = "Spill" -> "SPILL"
      [] s = "Gen" -> "GEN"
      [] s = "junk" -> "JUNK"
      [] s = "nan" -> "NAN"
      [] OTHER -> s

\* pd.to_numeric(mode, errors='coerce') on one element
to_numeric_mode(m) ==
    CASE m.kind = "num" -> m.num
      [] m.kind = "str" -> ParseFloat(m.str)
      [] OTHER -> NaN

\* Series.astype(str) on one element
astype_str(m) ==
    CASE m.kind = "num" ->
           (CASE m.num = 0 -> "0" [] m.num = 100 -> "1" [] m.num = 50 -> "0.5"
              [] m.num = 49 -> "0.49" [] m.num = 200 -> "2" [] m.num = -100 -> "-1"
              [] OTHER -> "num")
      [] m.kind = "str" -> m.str
      [] OTHER -> "nan"

\* str(mode) of a scalar
str(m) ==
    CASE m.kind = "num" -> astype_str(m)
      [] m.kind = "str" -> m.str
      [] OTHER -> "None"

\* mutant: the threshold compared with > where the code has >=
physics_normalize_mode_series_above(m) ==
    LET as_num == to_numeric_mode(m)
        s == upper(astype_str(m))
    IN  IF notna(as_num) THEN (IF as_num > 50 THEN "SPILL" ELSE "GEN")
        ELSE IF s \in {"GEN", "SPILL"} THEN s ELSE "GEN"

\* physics.py normalize_mode_series, Series branch, one element
physics_normalize_mode_series(m) ==
    LET as_num == to_numeric_mode(m)
        s == upper(astype_str(m))
        repl == CASE s = "0" -> "GEN" [] s = "1" -> "SPILL" [] OTHER -> s
    IN  IF notna(as_num) THEN (IF as_num >= 50 THEN "SPILL" ELSE "GEN")
        ELSE IF repl \in {"GEN", "SPILL"} THEN repl ELSE "GEN"

\* recalc.py normalize_mode_series, Series branch, one element
recalc_normalize_mode_series(m) ==
    LET as_num == to_numeric_mode(m)
        s == upper(astype_str(m))
        repl == CASE s = "0" -> "GEN" [] s = "1" -> "SPILL" [] OTHER -> s
    IN  IF notna(as_num) THEN (IF as_num >= 50 THEN "SPILL" ELSE "GEN")
        ELSE IF repl \in {"GEN", "SPILL"} THEN repl ELSE "GEN"

\* physics.py normalize_mode_series, scalar branch: float(mode) raises for a
\* missing value and for a text that is no number
physics_normalize_mode_scalar(m) ==
    IF m.kind # "nan" /\ notna(to_numeric_mode(m))
    THEN (IF to_numeric_mode(m) >= 50 THEN "SPILL" ELSE "GEN")
    ELSE CASE upper(str(m)) \in {"SPILL", "GEN"} -> upper(str(m))
           [] upper(str(m)) = "1" -> "SPILL"
           [] upper(str(m)) = "0" -> "GEN"
           [] OTHER -> "GEN"

\* recalc.py normalize_mode_series, scalar branch
recalc_normalize_mode_scalar(m) ==
    IF m.kind # "nan" /\ notna(to_numeric_mode(m))
    THEN (IF to_numeric_mode(m) >= 50 THEN "SPILL" ELSE "GEN")
    ELSE CASE upper(str(m)) \in {"SPILL", "GEN"} -> upper(str(m))
           [] upper(str(m)) = "1" -> "SPILL"
           [] upper(str(m)) = "0" -> "GEN"
           [] OTHER -> "GEN"

(***************************************************************************)
(* physics.py: powerhouse and MF_1_2 conversions, net inflow               *)
(***************************************************************************)
\* utils.to_numeric_series on one element
to_numeric_series(x) == fillna(x, 0)

physics_oxph_cfs_from_mw_linear(mw) ==
    (OXPH_MW_TO_CFS_FACTOR * to_numeric_series(mw)) \div 100 + OXPH_MW_TO_CFS_OFFSET

\* mutant: the side-water reduction applied in both modes
physics_mf12_mw_from_mfra_always_reduced(mfra_mw, r4_cfs, r5l_cfs, mode) ==
    LET reduction == Min(8600, Max(0, (to_numeric_series(r4_cfs) - to_numeric_series(r5l_cfs)) \div 10))
    IN  Max(((to_numeric_series(mfra_mw) - reduction) * 59) \div 100, 0)

physics_mf12_mw_from_mfra(mfra_mw, r4_cfs, r5l_cfs, mode) ==
    LET mfra == to_numeric_series(mfra_mw)
        r4 == to_numeric_series(r4_cfs)
        r5l == to_numeric_series(r5l_cfs)
        m == physics_normalize_mode_series(mode)
        reduction == Min(8600, Max(0, (r4 - r5l) \div 10))
        mf12_gen == ((mfra - reduction) * 59) \div 100
        mf12_spill == (mfra * 59) \div 100
        out == IF m = "SPILL" THEN mf12_spill ELSE mf12_gen
    IN  Max(out, 0)

physics_mf12_cfs_from_mw_quadratic(mw_in) ==
    LET mw == Max(to_numeric_series(mw_in), 0)
    IN  (((mw * mw) \div 1000) * MFRA_MW2_TO_CFS_FACTOR) \div 10000
        + (MFRA_MW_TO_CFS_FACTOR * mw) \div 10000
        + MFRA_MW_TO_CFS_OFFSET

physics_regulated_component_gen(mf12_cfs, r4_cfs, r5l_cfs) ==
    LET r4 == to_numeric_series(r4_cfs)
        r5l == to_numeric_series(r5l_cfs)
        mf == to_numeric_series(mf12_cfs)
        term1 == Min(88600, (mf + r4) - r5l)
        term2 == Max(0, r4 - r5l)
    IN  Max(term1, term2)

\* mutant: the mask of np.where inverted
expected_abay_net_cfs_swapped(row) ==
    LET r4 == to_numeric_series(row.R4_Flow)
        r5l == to_numeric_series(row.R5L_Flow)
        mode == physics_normalize_mode_series(row.CCS_Mode)
        mf12_cfs == physics_mf12_cfs_from_mw_quadratic(
                       physics_mf12_mw_from_mfra(to_numeric_series(row.MFP_Total_Gen_GEN_MDFK_and_RA), r4, r5l, ModeStr(mode)))
        oxph_cfs == physics_oxph_cfs_from_mw_linear(to_numeric_series(row.Oxbow_Power))
        base == to_numeric_series(row.R30_Flow) + r4
                  + (to_numeric_series(row.R20_Flow) - r5l) - to_numeric_series(row.R26_Flow)
    IN  IF mode = "SPILL" THEN base + physics_regulated_component_gen(mf12_cfs, r4, r5l) - oxph_cfs
                          ELSE base + mf12_cfs - oxph_cfs

\* one row of the lookback table
expected_abay_net_cfs(row) ==
    LET r30 == to_numeric_series(row.R30_Flow)
        r4 == to_numeric_series(row.R4_Flow)
        r20 == to_numeric_series(row.R20_Flow)
        r5l == to_numeric_series(row.R5L_Flow)
        r26 == to_numeric_series(row.R26_Flow)
        oxph_mw == to_numeric_series(row.Oxbow_Power)
        mfra_mw == to_numeric_series(row.MFP_Total_Gen_GEN_MDFK_and_RA)
        mode == physics_normalize_mode_series(row.CCS_Mode)
        mf12_mw == physics_mf12_mw_from_mfra(mfra_mw, r4, r5l, ModeStr(mode))
        mf12_cfs == physics_mf12_cfs_from_mw_quadratic(mf12_mw)
        oxph_cfs == physics_oxph_cfs_from_mw_linear(oxph_mw)
        base == r30 + r4 + (r20 - r5l) - r26
        regulated == physics_regulated_component_gen(mf12_cfs, r4, r5l)
        gen_mask == ~(mode = "SPILL")
        net_gen == base + regulated - oxph_cfs
        net_spill == base + mf12_cfs - oxph_cfs
    IN  IF gen_mask THEN net_gen ELSE net_spill

(***************************************************************************)
(* recalc.py: its own copies of the helpers                                *)
(***************************************************************************)
recalc_mf12_mw_from_mfra(mfra_mw, r4_cfs, r5l_cfs, mode) ==
    LET mode_norm == recalc_normalize_mode_series(mode)
        mfra == fillna(mfra_mw, 0)
        r4 == fillna(r4_cfs, 0)
        r5l == fillna(r5l_cfs, 0)
        side == Min(8600, Max(0, (r4 - r5l) \div 10))
        out == IF mode_norm = "SPILL" THEN (mfra * 59) \div 100
                                      ELSE ((mfra - side) * 59) \div 100
    IN  Max(out, 0)

recalc_mf12_cfs_from_mw_quadratic(mw) ==
    LET mwv == fillna(mw, 0)
    IN  (((mwv * mwv) \div 1000) * MFRA_MW2_TO_CFS_FACTOR) \div 10000
        + (MFRA_MW_TO_CFS_FACTOR * mwv) \div 10000
        + MFRA_MW_TO_CFS_OFFSET

\* 1.0 + a*k*f = 1 + 0.0912 * (10/121) * 163.73 = 2.2341
HEAD_CAP_DENOM == 22341

_head_limited_cap_mw(H_prev_ft, known_cfs) ==
    LET rhs == (OXPH_HEAD_LOSS_SLOPE * H_prev_ft) \div 10000
               + (OXPH_HEAD_LOSS_SLOPE * known_cfs) \div 121000
               + OXPH_HEAD_LOSS_INTERCEPT
    IN  (rhs * 10000) \div HEAD_CAP_DENOM

(***************************************************************************)
(* The forecast table.  Row i of a table carries the hour-ending timestamp *)
(* Index[i]; time is counted in half hours so that a timestamp between two *)
(* rows exists.  A cell of a column the table does not have is NaN; the    *)
(* three violation columns hold "True", "False" or "NaN".                  *)
(***************************************************************************)
NRows == 3
MaxOverrides == 2

Rows == 1 .. NRows
Index == [i \in Rows |-> 2 * i]
Timestamps == 1 .. (2 * NRows + 1)

\* df.index.searchsorted(ts): the number of rows strictly before ts
searchsorted(ts) == Cardinality({i \in Rows : Index[i] < ts})
in_index(ts) == \E i \in Rows : Index[i] = ts
get_loc(ts) == CHOOSE i \in Rows : Index[i] = ts

\* str.lower() on the column names the model uses as override keys
lower(col) ==
    CASE col = "OXPH_generation_MW" -> "oxph_generation_mw"
      [] col = "MFRA_MW" -> "mfra_mw"
      [] col = "R4_Flow" -> "r4_flow"
      [] col = "R30_Flow" -> "r30_flow"
      [] col = "FLOAT_FT" -> "float_ft"
      [] col = "Spill_Target" -> "spill_target"
      [] OTHER -> col

\* key_map = {k.lower(): k for k in df.columns}; key_map.get(col.lower(), col)
target_col(col) ==
    CASE lower(col) = "oxph_generation_mw" -> "OXPH_generation_MW"
      [] lower(col) = "mfra_mw" -> "MFRA_MW"
      [] lower(col) = "r4_flow" -> "R4_Flow"
      [] lower(col) = "r30_flow" -> "R30_Flow"
      [] lower(col) = "float_ft" -> "FLOAT_FT"
      [] OTHER -> col

\* lines 215-225: the overrides written into the copy of the table; an entry
\* whose column is no column of the table, or whose timestamp is no row, is
\* skipped
apply_overrides(df, overrides) ==
    [i \in Rows |->
        [c \in DOMAIN df[i] |->
            IF \E e \in overrides : target_col(e.col) = c /\ e.ts = Index[i]
            THEN (CHOOSE e \in overrides :
                      target_col(e.col) = c /\ e.ts = Index[i]).val
            ELSE df[i][c]]]

\* lines 227-237: the edit start before snapping; NaN stands for None
SetMin(S) == CHOOSE x \in S : \A y \in S : x <= y

edit_start(overrides, edit_from) ==
    IF isnan(edit_from)
    THEN (IF overrides # {} THEN SetMin({e.ts : e \in overrides}) ELSE Index[1])
    ELSE edit_from

\* mutant: an edit time after the last row starts at the last row
start_index_last_row(overrides, edit_from) ==
    LET ef == edit_start(overrides, edit_from)
    IN  IF in_index(ef) THEN get_loc(ef)
        ELSE IF searchsorted(ef) >= NRows THEN NRows
        ELSE searchsorted(ef) + 1

\* mutant: a timestamp absent from the index snapped to the row before it
start_index_snap_back(overrides, edit_from) ==
    LET ef == edit_start(overrides, edit_from)
    IN  IF in_index(ef) THEN get_loc(ef)
        ELSE IF searchsorted(ef) >= NRows THEN 0
        ELSE Max(searchsorted(ef), 1)

\* lines 239-247: start_idx, counted from 1; 0 stands for the ValueError
\* "edit_from is after the last forecast hour."
start_index(overrides, edit_from) ==
    LET ef == edit_start(overrides, edit_from)
    IN  IF in_index(ef) THEN get_loc(ef)
        ELSE IF searchsorted(ef) >= NRows THEN 0
        ELSE searchsorted(ef) + 1

\* mutant: initial_abay_ft preferred to the row before the start row
seed_initial_preferred(df, start_idx, initial_abay_ft) ==
    IF notna(initial_abay_ft)
    THEN <<abay_feet_to_af(initial_abay_ft), initial_abay_ft>>
    ELSE IF start_idx > 1 /\ notna(df[start_idx - 1].ABAY_af)
    THEN <<df[start_idx - 1].ABAY_af, df[start_idx - 1].ABAY_ft>>
    ELSE <<NaN, NaN>>

\* mutant: a first row that already has a storage seeds the first row
seed_from_first_row(df, start_idx, initial_abay_ft) ==
    IF start_idx = 1 /\ notna(df[1].ABAY_af)
    THEN <<df[1].ABAY_af, df[1].ABAY_ft>>
    ELSE IF start_idx = 1 \/ isnan(df[start_idx - 1].ABAY_af)
    THEN (IF isnan(initial_abay_ft) THEN <<NaN, NaN>>
          ELSE <<abay_feet_to_af(initial_abay_ft), initial_abay_ft>>)
    ELSE <<df[start_idx - 1].ABAY_af, df[start_idx - 1].ABAY_ft>>

\* lines 249-264: the seed <<AF_prev, H_prev>>; <<NaN, NaN>> stands for the
\* ValueError raised when initial_abay_ft is needed and is None
seed(df, start_idx, initial_abay_ft) ==
    IF start_idx = 1
    THEN (IF isnan(initial_abay_ft) THEN <<NaN, NaN>>
          ELSE <<abay_feet_to_af(initial_abay_ft), initial_abay_ft>>)
    ELSE LET prev == df[start_idx - 1]
         IN  IF notna(prev.ABAY_af)
             THEN <<prev.ABAY_af,
                    IF notna(prev.ABAY_ft) THEN prev.ABAY_ft
                                           ELSE abay_af_to_feet(prev.ABAY_af)>>
             ELSE IF isnan(initial_abay_ft) THEN <<NaN, NaN>>
             ELSE <<abay_feet_to_af(initial_abay_ft), initial_abay_ft>>

\* the 1e-9 of "g > cap + 1e-9": one step of the fixed-point grid, the
\* smallest positive difference the model can express
HEAD_CAP_TOL == 1

\* mutant: the bounds applied before the head cap
clamp_generation_bounds_first(g_user, cap, clamp_to_head, clamp_to_minmax) ==
    LET g0 == IF clamp_to_minmax THEN Max(OXPH_MIN_MW, Min(OXPH_MAX_MW, g_user))
                                 ELSE g_user
        capped == clamp_to_head /\ g0 > cap + HEAD_CAP_TOL
    IN  [g |-> IF capped THEN cap ELSE g0, viol_head |-> capped]

\* mutant: the head cap applied without raising the flag
clamp_generation_unflagged(g_user, cap, clamp_to_head, clamp_to_minmax) ==
    LET capped == clamp_to_head /\ g_user > cap + HEAD_CAP_TOL
        g1 == IF capped THEN cap ELSE g_user
        g2 == IF clamp_to_minmax THEN Max(OXPH_MIN_MW, Min(OXPH_MAX_MW, g1)) ELSE g1
    IN  [g |-> g2, viol_head |-> FALSE]

\* mutant: the upper bound left out of the clamp
clamp_generation_no_max(g_user, cap, clamp_to_head, clamp_to_minmax) ==
    LET g1 == IF clamp_to_head /\ g_user > cap + HEAD_CAP_TOL THEN cap ELSE g_user
    IN  [g |-> IF clamp_to_minmax THEN Max(OXPH_MIN_MW, g1) ELSE g1,
         viol_head |-> clamp_to_head /\ g_user > cap + HEAD_CAP_TOL]

\* lines 319-328: head cap first, then the min/max bounds
clamp_generation(g_user, cap, clamp_to_head, clamp_to_minmax) ==
    LET capped == clamp_to_head /\ g_user > cap + HEAD_CAP_TOL
        g1 == IF capped THEN cap ELSE g_user
        g2 == IF clamp_to_minmax THEN Max(OXPH_MIN_MW, Min(OXPH_MAX_MW, g1)) ELSE g1
    IN  [g |-> g2, viol_head |-> capped]

\* mutant: the elevation held at the float level, the storage left as integrated
float_cap_storage_kept(AF_int, H_int, float_ft) ==
    IF notna(float_ft) /\ H_int > float_ft
    THEN [AF_t |-> AF_int, H_t |-> float_ft]
    ELSE [AF_t |-> AF_int, H_t |-> H_int]

\* lines 334-337: the operational float cap
float_cap(AF_int, H_int, float_ft) ==
    IF notna(float_ft) /\ H_int > float_ft
    THEN [AF_t |-> abay_feet_to_af(float_ft), H_t |-> float_ft]
    ELSE [AF_t |-> AF_int, H_t |-> H_int]

\* lines 303-313: the known net inflow of one row and its regulated component
\* (NaN in SPILL)
recalc_known(row) ==
    LET r4 == fillna(row.R4_Flow, 0)
        r30 == fillna(row.R30_Flow, 0)
        r20 == fillna(row.R20_Flow, 0)
        r5l == fillna(row.R5L_Flow, 0)
        r26 == fillna(row.R26_Flow, 0)
        bias == fillna(row.bias_cfs, 0)
        mfra == fillna(row.MFRA_MW, 0)
        mode_norm == recalc_normalize_mode_series(row.Mode)
        mf12_mw == recalc_mf12_mw_from_mfra(mfra, r4, r5l, ModeStr(mode_norm))
        mf12_cfs == recalc_mf12_cfs_from_mw_quadratic(mf12_mw)
        base == r30 + r4 + (r20 - r5l) - r26 + bias
        term1 == Min(88600, (mf12_cfs + r4) - r5l)
        term2 == Max(0, r4 - r5l)
        regulated == Max(term1, term2)
    IN  IF mode_norm = "SPILL"
        THEN [known |-> base + mf12_cfs - OXPH_MW_TO_CFS_OFFSET, regulated |-> NaN,
              mf12_mw |-> mf12_mw, mf12_cfs |-> mf12_cfs, mode |-> mode_norm]
        ELSE [known |-> base + regulated - OXPH_MW_TO_CFS_OFFSET, regulated |-> regulated,
              mf12_mw |-> mf12_mw, mf12_cfs |-> mf12_cfs, mode |-> mode_norm]

bool(b) == IF b THEN "True" ELSE "False"

\* lines 299-354: one pass of the loop body for a row, from the carried
\* AF_prev and H_prev, statement by statement; each step adds the locals it
\* assigns to the record of the pass, which keeps them for the diagnostics

\* lines 266-278, 303-313: the series values of the row and the known inflow
hour_known(row, AF_prev, H_prev) ==
    recalc_known(row)
        @@ [g_user |-> fillna(row.OXPH_generation_MW, 0), float_ft |-> row.FLOAT_FT,
            AF_prev |-> AF_prev, H_prev |-> H_prev]

\* line 322: cap = _head_limited_cap_mw(H_prev, known)
hour_cap(h) == h @@ [cap |-> _head_limited_cap_mw(h.H_prev, h.known)]

\* lines 319-328: g and the head flag
hour_clamp(h, clamp_to_head, clamp_to_minmax) ==
    h @@ clamp_generation(h.g_user, h.cap, clamp_to_head, clamp_to_minmax)

\* lines 331-332: AF_t and H_t as integrated
hour_integrate(h) ==
    h @@ [AF_int |-> h.AF_prev
                        + AF_PER_CFS_HOUR(h.known - (OXPH_MW_TO_CFS_FACTOR * h.g) \div 100)]

hour_elevation(h) == h @@ [H_int |-> abay_af_to_feet(h.AF_int)]

\* lines 334-337: AF_t and H_t after the float cap
hour_float_cap(h) == h @@ float_cap(h.AF_int, h.H_int, h.float_ft)

\* mutant: violates_min taken from the elevation before the float cap
hour_diagnostics_min_before_cap(h) ==
    h @@ [head_lim |-> (OXPH_HEAD_LOSS_SLOPE * h.H_t) \div 10000 + OXPH_HEAD_LOSS_INTERCEPT,
          oxph_cfs |-> (OXPH_MW_TO_CFS_FACTOR * h.g) \div 100 + OXPH_MW_TO_CFS_OFFSET,
          viol_float |-> IF notna(h.float_ft) THEN h.H_t > h.float_ft ELSE FALSE,
          viol_min |-> h.H_int < ABAY_MIN_ELEV_FT]

\* lines 339-350: the diagnostics and the flags, from the capped H_t
hour_diagnostics(h) ==
    h @@ [head_lim |-> (OXPH_HEAD_LOSS_SLOPE * h.H_t) \div 10000 + OXPH_HEAD_LOSS_INTERCEPT,
          oxph_cfs |-> (OXPH_MW_TO_CFS_FACTOR * h.g) \div 100 + OXPH_MW_TO_CFS_OFFSET,
          viol_float |-> IF notna(h.float_ft) THEN h.H_t > h.float_ft ELSE FALSE,
          viol_min |-> h.H_t < ABAY_MIN_ELEV_FT]

recalc_hour(row, AF_prev, H_prev, clamp_to_head, clamp_to_minmax) ==
    hour_diagnostics(hour_float_cap(hour_elevation(hour_integrate(
        hour_clamp(hour_cap(hour_known(row, AF_prev, H_prev)),
                   clamp_to_head, clamp_to_minmax)))))

\* the loop: the passes for rows t .. NRows, in order, each seeded by the one
\* before it
RECURSIVE recalc_loop(_, _, _, _, _, _)
recalc_loop(df, t, AF_prev, H_prev, clamp_to_head, clamp_to_minmax) ==
    IF t > NRows THEN << >>
    ELSE LET h == recalc_hour(df[t], AF_prev, H_prev, clamp_to_head, clamp_to_minmax)
         IN  <<h>> \o recalc_loop(df, t + 1, h.AF_t, h.H_t, clamp_to_head, clamp_to_minmax)

\* lines 356-368: the write-back of rows start_idx .. NRows
write_back(df, start_idx, hours) ==
    [i \in Rows |->
        IF i < start_idx THEN df[i]
        ELSE LET h == hours[i - start_idx + 1]
             IN  [df[i] EXCEPT
                     !.ABAY_af = h.AF_t, !.ABAY_ft = h.H_t,
                     !.OXPH_generation_MW = h.g, !.OXPH_outflow_cfs = h.oxph_cfs,
                     !.Head_limit_MW = h.head_lim,
                     !.Regulated_component_cfs = h.regulated,
                     !.MF_1_2_MW = h.mf12_mw, !.MF_1_2_cfs = h.mf12_cfs,
                     !.violates_min = bool(h.viol_min),
                     !.violates_float = bool(h.viol_float),
                     !.violates_head = bool(h.viol_head)]]

\* recalc_abay_path with inplace=False: what the call returns
recalc_abay_path(forecast_df, overrides, initial_abay_ft, edit_from, clamp_to_head, clamp_to_minmax) ==
    LET df == apply_overrides(forecast_df, overrides)
        start_idx == start_index(overrides, edit_from)
        sd == IF start_idx = 0 THEN <<NaN, NaN>> ELSE seed(df, start_idx, initial_abay_ft)
    IN  IF start_idx = 0 \/ isnan(sd[1])
        THEN [status |-> "ValueError", start_idx |-> start_idx, hours |-> << >>,
              out |-> << >>]
        ELSE LET hours == recalc_loop(df, start_idx, sd[1], sd[2],
                                      clamp_to_head, clamp_to_minmax)
             IN  [status |-> "ok", start_idx |-> start_idx, hours |-> hours,
                  out |-> write_back(df, start_idx, hours)]

(***************************************************************************)
(* The tables, overrides and arguments the Recalculator is run on         *)
(***************************************************************************)
\* a forecast row before any calculation: inputs only
NewRow(r30, r4, r20, r5l, r26, mfra, float_ft, mode, bias, gen) ==
    [R30_Flow |-> r30, R4_Flow |-> r4, R20_Flow |-> r20, R5L_Flow |-> r5l,
     R26_Flow |-> r26, MFRA_MW |-> mfra, FLOAT_FT |-> float_ft, Mode |-> mode,
     bias_cfs |-> bias, OXPH_generation_MW |-> gen,
     ABAY_af |-> NaN, ABAY_ft |-> NaN, OXPH_outflow_cfs |-> NaN,
     Head_limit_MW |-> NaN, Regulated_component_cfs |-> NaN,
     MF_1_2_MW |-> NaN, MF_1_2_cfs |-> NaN,
     violates_min |-> "NaN", violates_float |-> "NaN", violates_head |-> "NaN"]

\* an ordinary GEN hour, a SPILL hour with high inflow, and a draining hour
\* with no float level and no scheduled generation
TemplateGen == NewRow(30000, 20000, 5000, 3000, 2000, 15000, 117500, ModeNum(0), 0, 300)
TemplateSpill == NewRow(100000, 150000, 5000, 3000, 2000, 20000, 117500, ModeNum(100), 5000, 580)
TemplateDrain == NewRow(0, 0, 0, 0, 45000, 0, NaN, ModeStr("gen"), 0, NaN)

RowTemplates == <<TemplateGen, TemplateSpill, TemplateDrain>>

\* the tables: one template on every row, or the templates in rotation
RawTables ==
    {[i \in Rows |-> RowTemplates[t]] : t \in 1 .. 3}
    \cup {[i \in Rows |-> RowTemplates[((i + s) % 3) + 1]] : s \in 0 .. 2}

\* what an override can be: a supported column, a column of the table that
\* is not on the supported list, or a name that is no column
OverrideValues(col) ==
    CASE col = "OXPH_generation_MW" -> {NaN, -50, 80, 700}
      [] col = "mfra_mw" -> {0}
      [] col = "R4_Flow" -> {90000}
      [] col = "FLOAT_FT" -> {116700}
      [] OTHER -> {100}

\* the timestamps tried per column: rows, a timestamp between two rows, one
\* before the first row and one after the last
OverrideTimes(col) ==
    CASE col = "OXPH_generation_MW" -> {2, 3, 4}
      [] col = "mfra_mw" -> {4}
      [] col = "R4_Flow" -> {1}
      [] col = "FLOAT_FT" -> {2 * NRows}
      [] OTHER -> {1, 2 * NRows + 1}

OverrideCols == {"OXPH_generation_MW", "mfra_mw", "R4_Flow", "FLOAT_FT", "Spill_Target"}

OverrideEntries ==
    UNION {[col : {c}, ts : OverrideTimes(c), val : OverrideValues(c)] : c \in OverrideCols}

\* initial_abay_ft: None, 1174.10 ft, 1113.00 ft (just above the vertex of
\* the storage curve)
InitialElevations == {NaN, 117410, 111300}

\* the argument tuples <<initial_abay_ft, edit_from, clamp_to_head,
\* clamp_to_minmax>>: every elevation with every setting of the clamps that
\* leaves one on, and an explicit edit_from between two rows and after the
\* last row
CallArgs ==
    {<<h0, NaN, fl[1], fl[2]>> :
        h0 \in InitialElevations,
        fl \in {<<TRUE, TRUE>>, <<FALSE, TRUE>>, <<TRUE, FALSE>>}}
    \cup {<<117410, ef, TRUE, TRUE>> : ef \in {3, 2 * NRows + 1}}

VARIABLES
    df,         \* the caller's forecast table
    overrides,  \* the overrides the operator has entered so far
    call,       \* the last call of recalc_abay_path: arguments and result
    opt,        \* the last call of build_and_solve: arguments and result
    phys,       \* the last evaluation of expected_abay_net_cfs or normalize_mode_series
    ann,        \* the last call of compute_setpoint_change_annotations
    bias24,     \* the last call of compute_bias_cfs_24h
    optimization_run,   \* an OptimizationRun: its row, the request handler and the worker task
    alert_threshold     \* an AlertThreshold: its row, its AlertLog rows and the checks running

vars == <<df, overrides, call, opt, phys, ann, bias24, optimization_run, alert_threshold>>
recalc_vars == <<df, overrides, call>>

NoCall == [status |-> "none"]

RecalcInit ==
    /\ df \in RawTables
    /\ overrides = {}
    /\ call = NoCall
    /\ opt = NoCall
    /\ phys = NoCall
    /\ ann = NoCall
    /\ bias24 = NoCall
    /\ optimization_run = NoCall /\ alert_threshold = NoCall

\* the operator edits one cell: one more entry of the overrides mapping
\* (one value per column and timestamp)
Edit(e) ==
    /\ call.status = "none"
    /\ Cardinality(overrides) < MaxOverrides
    /\ \A o \in overrides : ~(o.col = e.col /\ o.ts = e.ts)
    /\ overrides' = overrides \cup {e}
    /\ UNCHANGED <<df, call, opt, phys, ann, bias24, optimization_run, alert_threshold>>

\* recalc_abay_path(df, overrides, initial_abay_ft, edit_from, clamp_to_head,
\* clamp_to_minmax), inplace=False
Recalc(initial_abay_ft, edit_from, clamp_to_head, clamp_to_minmax) ==
    /\ call.status = "none"
    /\ call' = [input |-> df, overrides |-> overrides,
                initial_abay_ft |-> initial_abay_ft, edit_from |-> edit_from,
                clamp_to_head |-> clamp_to_head, clamp_to_minmax |-> clamp_to_minmax]
                   @@ recalc_abay_path(df, overrides, initial_abay_ft, edit_from,
                                       clamp_to_head, clamp_to_minmax)
    /\ UNCHANGED <<df, overrides, opt, phys, ann, bias24, optimization_run, alert_threshold>>

RecalcNext ==
    \/ \E e \in OverrideEntries : Edit(e)
    \/ \E a \in CallArgs : Recalc(a[1], a[2], a[3], a[4])

Spec == RecalcInit /\ [][RecalcNext]_vars

(***************************************************************************)
(* Properties of the Recalculator                                          *)
(***************************************************************************)
Returned == call.status = "ok"
Recomputed == {i \in Rows : Returned /\ i >= call.start_idx}
\* the locals of the loop pass that recomputed row i
Hour(i) == call.hours[i - call.start_idx + 1]
Abs(x) == IF x < 0 THEN -x ELSE x

\* C1: called with overrides and no explicit edit_from, every row whose
\* timestamp is strictly before the earliest override timestamp is returned
\* with the input's value in every column
C1_RowsBeforeEditUntouched ==
    (Returned /\ call.overrides # {} /\ isnan(call.edit_from)) =>
        \A i \in Rows :
            Index[i] < SetMin({e.ts : e \in call.overrides}) =>
                call.out[i] = call.input[i]

\* C1 happens: an override after the first row, rows before it, and a later
\* row that the call rewrote
C1_Witness ==
    /\ Returned /\ call.overrides # {} /\ isnan(call.edit_from)
    /\ \E i \in Rows : Index[i] < SetMin({e.ts : e \in call.overrides})
    /\ \E j \in Rows : call.out[j] # call.input[j]

\* C2: with clamp_to_minmax, every row at or after the start row has its
\* generation within [OXPH_MIN_MW, OXPH_MAX_MW]
C2_GenerationWithinBounds ==
    (Returned /\ call.clamp_to_minmax) =>
        \A i \in Recomputed :
            /\ call.out[i].OXPH_generation_MW >= OXPH_MIN_MW
            /\ call.out[i].OXPH_generation_MW <= OXPH_MAX_MW

\* C2 happens: one call with a missing, a negative and an above-maximum
\* request and a head cap below the minimum
C2_Witness ==
    /\ Returned /\ call.clamp_to_minmax /\ call.clamp_to_head
    /\ \E i \in Recomputed : isnan(apply_overrides(call.input, call.overrides)[i].OXPH_generation_MW)
    /\ \E i \in Recomputed : Hour(i).g_user < 0
    /\ \E i \in Recomputed : Hour(i).g_user > OXPH_MAX_MW
    /\ \E i \in Recomputed : Hour(i).cap < OXPH_MIN_MW /\ Hour(i).viol_head

C4_FloatCeiling ==
    Returned =>
        \A i \in Recomputed :
            LET float_ft == call.out[i].FLOAT_FT IN
            notna(float_ft) =>
                /\ call.out[i].ABAY_ft <= float_ft
                /\ Hour(i).H_int > float_ft =>
                      /\ call.out[i].ABAY_ft = float_ft
                      /\ call.out[i].ABAY_af = abay_feet_to_af(float_ft)
                      /\ i < NRows =>
                            /\ Hour(i + 1).H_prev = float_ft
                            /\ Hour(i + 1).AF_prev = abay_feet_to_af(float_ft)

\* C4 happens: an hour integrated above its float level, its unclamped
\* storage different from the storage at the float level, and an hour after it
C4_Witness ==
    /\ Returned
    /\ \E i \in Recomputed :
          /\ i < NRows
          /\ notna(call.out[i].FLOAT_FT)
          /\ Hour(i).H_int > call.out[i].FLOAT_FT
          /\ Hour(i).AF_int # call.out[i].ABAY_af

\* C5: violates_float is true on every recomputed hour whose unclamped
\* integrated elevation exceeded the row's FLOAT_FT
C5_FloatFlagSet ==
    Returned =>
        \A i \in Recomputed :
            (notna(call.out[i].FLOAT_FT) /\ Hour(i).H_int > call.out[i].FLOAT_FT) =>
                call.out[i].violates_float = "True"

\* C6 as stated: consecutive hours of every output differ by at most the ramp
\* limit plus the tolerance
C6_AsStated ==
    (Returned /\ call.clamp_to_head /\ call.clamp_to_minmax) =>
        \A i \in Recomputed :
            (i - 1) \in Recomputed =>
                Abs(call.out[i].OXPH_generation_MW - call.out[i - 1].OXPH_generation_MW)
                    <= RAMP_MW_PER_HOUR + HEAD_CAP_TOL

\* C6 amended: the Recalculator applies no ramp limit; with clamp_to_minmax
\* consecutive recomputed hours differ by at most OXPH_MAX_MW - OXPH_MIN_MW
C6_ChangeWithinEnvelope ==
    (Returned /\ call.clamp_to_minmax) =>
        \A i \in Recomputed :
            (i - 1) \in Recomputed =>
                Abs(call.out[i].OXPH_generation_MW - call.out[i - 1].OXPH_generation_MW)
                    <= OXPH_MAX_MW - OXPH_MIN_MW

\* C6 happens: two consecutive recomputed hours, both overridden, the full
\* envelope apart
C6_Witness ==
    /\ Returned /\ call.clamp_to_minmax
    /\ \E i \in Recomputed :
          /\ (i - 1) \in Recomputed
          /\ \E e \in call.overrides : e.col = "OXPH_generation_MW" /\ e.ts = Index[i]
          /\ \E e \in call.overrides : e.col = "OXPH_generation_MW" /\ e.ts = Index[i - 1]
          /\ Abs(call.out[i].OXPH_generation_MW - call.out[i - 1].OXPH_generation_MW)
                = OXPH_MAX_MW - OXPH_MIN_MW

(***************************************************************************)
(* expected_abay_net_cfs evaluated on lookback rows                        *)
(***************************************************************************)
ModeValues ==
    {ModeNum(0), ModeNum(100), ModeNum(49), ModeNum(50),
     ModeStr("0"), ModeStr("1"), ModeStr("GEN"), ModeStr("SPILL"),
     ModeStr("gen"), ModeStr("Spill"), ModeStr("junk"), ModeNone,
     ModeNum(200), ModeNum(-100), ModeStr("0.5"), ModeStr("0.49"), ModeStr("2"),
     ModeStr("-1"), ModeStr("")}

LookbackRows ==
    [R30_Flow : {80000}, R4_Flow : {0, 20000, 150000}, R20_Flow : {5000},
     R5L_Flow : {3000, 30000}, R26_Flow : {2000},
     MFP_Total_Gen_GEN_MDFK_and_RA : {0, 1000, 15000, 21000},
     Oxbow_Power : {NaN, 300}, CCS_Mode : ModeValues]

PhysicsInit ==
    /\ phys = NoCall
    /\ df = << >> /\ overrides = {} /\ call = NoCall /\ opt = NoCall
    /\ ann = NoCall /\ bias24 = NoCall
    /\ optimization_run = NoCall /\ alert_threshold = NoCall

\* expected_abay_net_cfs(df) for one row of df
Evaluate(row) ==
    /\ phys' = [status |-> "ok", row |-> row, net |-> expected_abay_net_cfs(row)]
    /\ UNCHANGED <<df, overrides, call, opt, ann, bias24, optimization_run, alert_threshold>>

\* normalize_mode_series on one value: as the element of a Series and as a
\* scalar, by the copy in physics.py and by the copy in recalc.py
Normalize(m) ==
    /\ phys' = [status |-> "mode", value |-> m,
                physics_series |-> physics_normalize_mode_series(m),
                physics_scalar |-> physics_normalize_mode_scalar(m),
                recalc_series |-> recalc_normalize_mode_series(m),
                recalc_scalar |-> recalc_normalize_mode_scalar(m)]
    /\ UNCHANGED <<df, overrides, call, opt, ann, bias24, optimization_run, alert_threshold>>

PhysicsNext ==
    \/ \E row \in LookbackRows : Evaluate(row)
    \/ \E m \in ModeValues : Normalize(m)

SpecPhysics == PhysicsInit /\ [][PhysicsNext]_vars

\* the documented formulas, on the row last evaluated
DocMode == physics_normalize_mode_series(phys.row.CCS_Mode)
DocSide == phys.row.R4_Flow - phys.row.R5L_Flow
DocBase ==
    phys.row.R30_Flow + phys.row.R4_Flow + (phys.row.R20_Flow - phys.row.R5L_Flow)
        - phys.row.R26_Flow
DocReduction == Max(0, Min(8600, DocSide \div 10))
DocMF12_MW ==
    IF DocMode = "GEN"
    THEN Max(0, ((phys.row.MFP_Total_Gen_GEN_MDFK_and_RA - DocReduction) * 59) \div 100)
    ELSE Max(0, (phys.row.MFP_Total_Gen_GEN_MDFK_and_RA * 59) \div 100)
DocMF12_cfs ==
    (((DocMF12_MW * DocMF12_MW) \div 1000) * MFRA_MW2_TO_CFS_FACTOR) \div 10000
        + (MFRA_MW_TO_CFS_FACTOR * DocMF12_MW) \div 10000 + MFRA_MW_TO_CFS_OFFSET
DocRegulated == Max(Min(88600, DocMF12_cfs + DocSide), Max(0, DocSide))
DocOxphCfs ==
    (OXPH_MW_TO_CFS_FACTOR * fillna(phys.row.Oxbow_Power, 0)) \div 100
        + OXPH_MW_TO_CFS_OFFSET

\* C10: expected_abay_net_cfs is base + regulated - oxph_cfs in GEN and
\* base + MF12_cfs - oxph_cfs in SPILL, with the side-water reduction applied
\* to MF12 MW in GEN only and MF12 MW floored at zero
C10_ModeSelectsOneFormula ==
    phys.status = "ok" =>
        /\ DocMode = "GEN" => phys.net = DocBase + DocRegulated - DocOxphCfs
        /\ DocMode = "SPILL" => phys.net = DocBase + DocMF12_cfs - DocOxphCfs
        /\ DocMode \in {"GEN", "SPILL"}

\* C10 happens: a SPILL row on which the two formulas differ and the
\* side-water reduction would have changed the result
C10_Witness ==
    /\ phys.status = "ok"
    /\ DocMode = "SPILL"
    /\ DocRegulated # DocMF12_cfs
    /\ DocReduction > 0
    /\ phys.row.MFP_Total_Gen_GEN_MDFK_and_RA > 0

\* C10 happens in GEN too: the reduction exceeds the plant reading and the
\* floor at zero applies
C10_WitnessGenFloor ==
    /\ phys.status = "ok"
    /\ DocMode = "GEN"
    /\ DocReduction > phys.row.MFP_Total_Gen_GEN_MDFK_and_RA
    /\ phys.row.MFP_Total_Gen_GEN_MDFK_and_RA > 0

NHours == 2
Hours == 1 .. NHours

\* OptimizeConfig defaults, after __post_init__
DefaultConfig ==
    [min_elev_ft |-> ABAY_MIN_ELEV_FT, float_buffer_ft |-> 50,
     oxph_min_mw |-> OXPH_MIN_MW, oxph_max_mw |-> OXPH_MAX_MW,
     ramp_mw_per_hour |-> RAMP_MW_PER_HOUR, summer_setpoint_floor_mw |-> 600]

N_BREAKS == 14

\* np.linspace(h_min, h_max, n_breaks)[i - 1]
linspace(h_min, h_max, i) == h_min + ((i - 1) * (h_max - h_min)) \div (N_BREAKS - 1)

\* piecewise_storage_breakpoints: H_pts and A_pts
piecewise_storage_breakpoints(h_min, h_max_in) ==
    LET h_max == IF h_max_in <= h_min THEN h_min + 100 ELSE h_max_in
        H_vals == [i \in 1 .. N_BREAKS |-> linspace(h_min, h_max, i)]
    IN  [H |-> H_vals, A |-> [i \in 1 .. N_BREAKS |-> abay_feet_to_af(H_vals[i])]]

\* lines 72-78 and 140-144: the mode column as the optimizer reads it and the
\* known inflow it puts into the water balance of a row
opt_mode(row) ==
    upper(astype_str(IF row.Mode = ModeNone THEN ModeStr("GEN") ELSE row.Mode))

\* line 144: the routing the water balance of a row takes
opt_routing(row) == IF opt_mode(row) # "SPILL" THEN "GEN" ELSE "SPILL"

opt_known(row) ==
    LET r4 == row.R4_Forecast_CFS
        r30 == row.R30_Forecast_CFS
        r20 == row.R20_Flow
        r5l == row.R5L_Flow
        r26 == row.R26_Flow
        mfra == row.MFRA_MW_forecast
        bias == fillna(row.bias_cfs, 0)
        mode == opt_mode(row)
        mf12_mw == physics_mf12_mw_from_mfra(mfra, r4, r5l, ModeStr(mode))
        mf12_cfs == physics_mf12_cfs_from_mw_quadratic(mf12_mw)
        base == r30 + r4 + (r20 - r5l) - r26 + bias
        regulated == physics_regulated_component_gen(mf12_cfs, r4, r5l)
        known_GEN == base + regulated - OXPH_MW_TO_CFS_OFFSET
        known_SPILL == base + mf12_cfs - OXPH_MW_TO_CFS_OFFSET
    IN  IF opt_routing(row) = "GEN" THEN known_GEN ELSE known_SPILL

\* the water balance wb_t: A[t] from A[t-1] (A0 for the first hour) and g[t]
RECURSIVE opt_storage(_, _, _, _)
opt_storage(rows, A0, g, t) ==
    LET prev == IF t = 1 THEN A0 ELSE opt_storage(rows, A0, g, t - 1)
    IN  prev + AF_PER_CFS_HOUR(opt_known(rows[t]) - (OXPH_MW_TO_CFS_FACTOR * g[t]) \div 100)

\* lam_sum, seg_one, lam_adj, H_link and A_link: the storage lies between the
\* first and the last breakpoint and the elevation is the interpolation of
\* the segment that holds it; NaN when no weights exist
pwl_elevation(pts, A) ==
    IF A < pts.A[1] \/ A > pts.A[N_BREAKS] THEN NaN
    ELSE LET k == CHOOSE j \in 1 .. (N_BREAKS - 1) : pts.A[j] <= A /\ A <= pts.A[j + 1]
         IN  IF pts.A[k + 1] = pts.A[k] THEN pts.H[k]
             ELSE pts.H[k] + ((A - pts.A[k]) * (pts.H[k + 1] - pts.H[k]))
                                \div (pts.A[k + 1] - pts.A[k])

\* mutant: ramp_dn_0 and ramp_dn_t left out
opt_ramp_up_only(cfg, initial_gen_mw, g) ==
    /\ g[1] - initial_gen_mw <= cfg.ramp_mw_per_hour
    /\ \A t \in 2 .. NHours : g[t] - g[t - 1] <= cfg.ramp_mw_per_hour

\* lines 150-155: ramp_up_0, ramp_dn_0, ramp_up_t, ramp_dn_t
opt_ramp(cfg, initial_gen_mw, g) ==
    /\ g[1] - initial_gen_mw <= cfg.ramp_mw_per_hour
    /\ initial_gen_mw - g[1] <= cfg.ramp_mw_per_hour
    /\ \A t \in 2 .. NHours :
          /\ g[t] - g[t - 1] <= cfg.ramp_mw_per_hour
          /\ g[t - 1] - g[t] <= cfg.ramp_mw_per_hour

\* mutant: sp_eq_gen written as an inequality
opt_linkage_loose(cfg, flags, g, s) ==
    \A t \in Hours :
        IF flags[t]
        THEN /\ s[t] >= cfg.summer_setpoint_floor_mw
             /\ s[t] >= g[t]
             /\ g[t] >= cfg.summer_setpoint_floor_mw - 1000
             /\ s[t] - g[t] <= cfg.oxph_max_mw
        ELSE s[t] >= g[t]

\* lines 157-171: sp_floor, sp_ge_gen, summer_floor (floor_slack within
\* [0, 10]), track_short (shortfall within [0, oxph_max_mw]); sp_eq_gen
opt_linkage(cfg, flags, g, s) ==
    \A t \in Hours :
        IF flags[t]
        THEN /\ s[t] >= cfg.summer_setpoint_floor_mw
             /\ s[t] >= g[t]
             /\ g[t] >= cfg.summer_setpoint_floor_mw - 1000
             /\ s[t] - g[t] <= cfg.oxph_max_mw
        ELSE s[t] = g[t]

\* lines 173-176: smooth_t, with ds_pos and ds_neg within [0, oxph_max_mw]
opt_smoothing(cfg, initial_gen_mw, s) ==
    /\ Abs(s[1] - initial_gen_mw) <= cfg.oxph_max_mw
    /\ \A t \in 2 .. NHours : Abs(s[t] - s[t - 1]) <= cfg.oxph_max_mw

\* lines 93-96 and 118-134: the bounds of the variables, the storage curve,
\* H_max and H_min with their slacks within [0, 10], and the head limit
opt_elevation(cfg, rows, initial_elev_ft, g) ==
    LET H_maxs == {rows[t].FLOAT_FT - cfg.float_buffer_ft : t \in Hours}
        global_h_min == Min(cfg.min_elev_ft, initial_elev_ft)
        global_h_max == Max(CHOOSE x \in H_maxs : \A y \in H_maxs : x >= y, initial_elev_ft)
        pts == piecewise_storage_breakpoints(global_h_min, global_h_max)
        A0 == abay_feet_to_af(initial_elev_ft)
    IN  \A t \in Hours :
            LET A == opt_storage(rows, A0, g, t)
                H == pwl_elevation(pts, A)
            IN  /\ A >= 0
                /\ notna(H)
                /\ H >= 0 /\ H <= 200000
                /\ H <= (rows[t].FLOAT_FT - cfg.float_buffer_ft) + 1000
                /\ H >= cfg.min_elev_ft - 1000
                /\ g[t] <= (OXPH_HEAD_LOSS_SLOPE * H) \div 10000 + OXPH_HEAD_LOSS_INTERCEPT

\* the values the model tries for g and s
GenGrid == {80, 332, 580, 706}
SetpointGrid == GenGrid \cup {600, 1000}

\* every constraint of the model
opt_feasible(cfg, rows, initial_elev_ft, initial_gen_mw, flags, g, s) ==
    /\ \A t \in Hours : g[t] >= cfg.oxph_min_mw /\ g[t] <= cfg.oxph_max_mw
    /\ \A t \in Hours : s[t] >= 0 /\ s[t] <= 1000
    /\ opt_ramp(cfg, initial_gen_mw, g)
    /\ opt_linkage(cfg, flags, g, s)
    /\ opt_smoothing(cfg, initial_gen_mw, s)
    /\ opt_elevation(cfg, rows, initial_elev_ft, g)

\* the forecast tables: one set of flows, the Mode column broadcast
OptRow(mode) ==
    [R4_Forecast_CFS |-> 20000, R30_Forecast_CFS |-> 30000, R20_Flow |-> 5000,
     R5L_Flow |-> 3000, R26_Flow |-> 2000, MFRA_MW_forecast |-> 15000,
     FLOAT_FT |-> 117500, bias_cfs |-> 0, Mode |-> mode]

OptModes ==
    {ModeNum(0), ModeNum(100), ModeStr("1"), ModeStr("SPILL"),
     ModeStr("spill"), ModeStr("GEN"), ModeNone}

OptTables == {[t \in Hours |-> OptRow(m)] : m \in OptModes}

OptInit ==
    /\ opt = NoCall
    /\ df = << >> /\ overrides = {} /\ call = NoCall /\ phys = NoCall
    /\ ann = NoCall /\ bias24 = NoCall
    /\ optimization_run = NoCall /\ alert_threshold = NoCall

OptElevations == {117000, 116850}
OptInitialGens == {80, 332, 900}

\* build_and_solve, lines 48-185: the inputs are read and the model is built
Build(rows, initial_elev_ft, initial_gen_mw, flags) ==
    /\ opt.status = "none"
    /\ opt' = [status |-> "built", rows |-> rows, initial_elev_ft |-> initial_elev_ft,
               initial_gen_mw |-> initial_gen_mw, flags |-> flags,
               known |-> [t \in Hours |-> opt_known(rows[t])],
               g |-> [t \in Hours |-> NaN], s |-> [t \in Hours |-> NaN]]
    /\ UNCHANGED <<df, overrides, call, phys, ann, bias24, optimization_run, alert_threshold>>

\* the model is built and m.solve is about to be called: with PULP_CBC_CMD
\* ("built"), or with the default solver after that call raised ("retry")
Solving == opt.status \in {"built", "retry"}

\* lines 187-203 with a solver run that ends Optimal
SolveOptimal(g, s) ==
    /\ Solving
    /\ opt_feasible(DefaultConfig, opt.rows, opt.initial_elev_ft, opt.initial_gen_mw,
                    opt.flags, g, s)
    /\ opt' = [opt EXCEPT !.status = "Optimal", !.g = g, !.s = s]
    /\ UNCHANGED <<df, overrides, call, phys, ann, bias24, optimization_run, alert_threshold>>

\* lines 187-203 with a solver run that ends Infeasible: the status is
\* returned and the variables carry no solution
SolveInfeasible ==
    /\ Solving
    /\ ~ \E g \in [Hours -> GenGrid], s \in [Hours -> SetpointGrid] :
            opt_feasible(DefaultConfig, opt.rows, opt.initial_elev_ft,
                         opt.initial_gen_mw, opt.flags, g, s)
    /\ opt' = [opt EXCEPT !.status = "Infeasible"]
    /\ UNCHANGED <<df, overrides, call, phys, ann, bias24, optimization_run, alert_threshold>>

\* lines 188-191: m.solve raises.  The exception of the first call is caught
\* and m.solve() is called again; the second call is outside the try, so its
\* exception leaves build_and_solve and no table is returned
SolverRaises ==
    /\ Solving
    /\ opt' = [opt EXCEPT !.status = IF opt.status = "built" THEN "retry" ELSE "raised"]
    /\ UNCHANGED <<df, overrides, call, phys, ann, bias24, optimization_run, alert_threshold>>

OptNext ==
    \/ \E rows \in OptTables, h0 \in OptElevations, g0 \in OptInitialGens,
          flags \in [Hours -> BOOLEAN] : Build(rows, h0, g0, flags)
    \/ \E g \in [Hours -> GenGrid], s \in [Hours -> SetpointGrid] : SolveOptimal(g, s)
    \/ SolveInfeasible
    \/ SolverRaises

SpecOptimizer == OptInit /\ [][OptNext]_vars

(***************************************************************************)
(* Claims about the Optimizer.                                             *)
(***************************************************************************)
Solved == opt.status = "Optimal"

\* C7: a schedule returned with an optimal status keeps the first hour within
\* ramp_mw_per_hour of initial_gen_mw, every later hour within ramp_mw_per_hour
\* of the hour before it, and every hour within [oxph_min_mw, oxph_max_mw],
\* with nothing to relax these.
C7_RampAndBoundsHard ==
    Solved =>
        /\ Abs(opt.g[1] - opt.initial_gen_mw) <= DefaultConfig.ramp_mw_per_hour
        /\ \A t \in 2 .. NHours :
              Abs(opt.g[t] - opt.g[t - 1]) <= DefaultConfig.ramp_mw_per_hour
        /\ \A t \in Hours :
              /\ opt.g[t] >= DefaultConfig.oxph_min_mw
              /\ opt.g[t] <= DefaultConfig.oxph_max_mw

\* a solved schedule that uses the whole ramp upward and then downward
C7_Witness ==
    /\ Solved
    /\ opt.g[1] - opt.initial_gen_mw = DefaultConfig.ramp_mw_per_hour
    /\ opt.g[1] - opt.g[2] = DefaultConfig.ramp_mw_per_hour
    /\ opt.g[2] = DefaultConfig.oxph_min_mw

\* C8: in a solved schedule an hour outside the recreational window has its
\* setpoint equal to its generation, and an hour inside it has a setpoint of
\* at least floor_mw and at least its generation.
C8_SetpointLinkage ==
    Solved =>
        \A t \in Hours :
            IF opt.flags[t]
            THEN /\ opt.s[t] >= DefaultConfig.summer_setpoint_floor_mw
                 /\ opt.s[t] >= opt.g[t]
            ELSE opt.s[t] = opt.g[t]

\* a solved schedule with an hour inside the window whose setpoint is above
\* its generation and an hour outside it
C8_Witness ==
    /\ Solved
    /\ \E t \in Hours : opt.flags[t] /\ opt.s[t] > opt.g[t]
    /\ \E t \in Hours : ~ opt.flags[t] /\ opt.s[t] = opt.g[t]

\* the row of the Optimizer's table as the Recalculator and physics read it
AsRecalcRow(row) ==
    NewRow(row.R30_Forecast_CFS, row.R4_Forecast_CFS, row.R20_Flow, row.R5L_Flow,
           row.R26_Flow, row.MFRA_MW_forecast, row.FLOAT_FT, row.Mode,
           row.bias_cfs, NaN)

\* C9: for the same flows, MFRA MW and bias and the same mode value in any
\* accepted representation, the known net inflow in the Optimizer's water
\* balance equals the one the Recalculator computes, and both take the
\* routing that physics.expected_abay_net_cfs takes.
C9_SameKnownInflow ==
    opt.status # "none" =>
        \A t \in Hours :
            LET rc == recalc_known(AsRecalcRow(opt.rows[t]))
                routing == physics_normalize_mode_series(opt.rows[t].Mode)
            IN  /\ opt.known[t] = rc.known
                /\ opt_routing(opt.rows[t]) = routing
                /\ rc.mode = routing

(***************************************************************************)
(* Further properties of the Recalculator                                  *)
(***************************************************************************)
\* the generation of row i before the min/max clamp: the head cap where the
\* head clamp acted, the request elsewhere
BeforeMinMax(i) == IF Hour(i).viol_head THEN Hour(i).cap ELSE Hour(i).g_user
RaisedToMin(i) == call.clamp_to_minmax /\ BeforeMinMax(i) < OXPH_MIN_MW

\* C12: with clamp_to_head, every recomputed hour whose generation was not
\* raised to OXPH_MIN_MW by the min clamp has a generation of at most
\* OXPH_HEAD_LOSS_SLOPE x ABAY_ft + OXPH_HEAD_LOSS_INTERCEPT at the hour's
\* end-of-hour elevation, the Head_limit_MW of the row.
C12_HeadLimitAtEndElevation ==
    (Returned /\ call.clamp_to_head) =>
        \A i \in Recomputed :
            ~ RaisedToMin(i) =>
                /\ call.out[i].Head_limit_MW =
                      (OXPH_HEAD_LOSS_SLOPE * call.out[i].ABAY_ft) \div 10000
                          + OXPH_HEAD_LOSS_INTERCEPT
                /\ call.out[i].OXPH_generation_MW <= call.out[i].Head_limit_MW

\* C13: on every recomputed row violates_min is true exactly when the ABAY_ft
\* written is below ABAY_MIN_ELEV_FT; the elevation written is the integrated
\* one, or the float level where that held it, never raised to the minimum;
\* and the flag is set when the float cap itself puts the row below the
\* minimum.
C13_MinFlagFollowsElevation ==
    Returned =>
        \A i \in Recomputed :
            /\ call.out[i].violates_min = "True"
                  <=> call.out[i].ABAY_ft < ABAY_MIN_ELEV_FT
            /\ call.out[i].ABAY_ft <= Hour(i).H_int
            /\ call.out[i].ABAY_ft \in {Hour(i).H_int, call.out[i].FLOAT_FT}
            /\ (/\ notna(call.out[i].FLOAT_FT)
                /\ Hour(i).H_int > call.out[i].FLOAT_FT
                /\ call.out[i].FLOAT_FT < ABAY_MIN_ELEV_FT) =>
                    call.out[i].violates_min = "True"

\* C13 happens: an hour integrated above the minimum and held by a float
\* level below it, flagged, after an hour that is not flagged
C13_Witness ==
    /\ Returned
    /\ \E i \in Recomputed :
          /\ Hour(i).H_int >= ABAY_MIN_ELEV_FT
          /\ call.out[i].FLOAT_FT < ABAY_MIN_ELEV_FT
          /\ call.out[i].ABAY_ft = call.out[i].FLOAT_FT
          /\ call.out[i].violates_min = "True"
    /\ \E j \in Recomputed : call.out[j].violates_min = "False"

\* the earliest edit timestamp of the call: the explicit edit_from, else the
\* earliest override key, else the first row
EditTime ==
    IF notna(call.edit_from) THEN call.edit_from
    ELSE IF call.overrides # {} THEN SetMin({e.ts : e \in call.overrides})
    ELSE Index[1]
LaterRows == {i \in Rows : Index[i] > EditTime}

\* C14: when the earliest edit timestamp is not a row of the table, the
\* recalculation starts at the next later row: rows before it are returned
\* as they were after the overrides and that row is recomputed; when there is
\* no later row the call raises an input error and returns no table.
C14_SnapForwardOrError ==
    (call.status # "none" /\ EditTime \notin {Index[i] : i \in Rows}) =>
        IF LaterRows # {}
        THEN /\ call.start_idx = SetMin(LaterRows)
             /\ Returned =>
                   /\ \A i \in Rows :
                         i < call.start_idx =>
                             call.out[i] = apply_overrides(call.input, call.overrides)[i]
                   /\ call.out[call.start_idx].ABAY_ft = Hour(call.start_idx).H_t
                   /\ notna(call.out[call.start_idx].ABAY_ft)
        ELSE /\ call.status = "ValueError"
             /\ call.out = << >>

\* C14 happens: an edit time between the first two rows, the call returning a
\* table recomputed from the second row on
C14_Witness ==
    /\ Returned
    /\ EditTime > Index[1] /\ EditTime < Index[2]
    /\ call.start_idx = 2
    /\ isnan(call.out[1].ABAY_ft) /\ notna(call.out[2].ABAY_ft)

\* an edit time after the last row: the input error
C14_WitnessError ==
    /\ call.status = "ValueError"
    /\ EditTime > Index[NRows]
    /\ notna(call.initial_abay_ft)

\* the columns the overrides are documented to support, in any case
SupportedColumns == {"MFRA_MW", "OXPH_generation_MW", "R4_Flow", "R30_Flow"}
Unsupported == {e \in call.overrides : target_col(e.col) \notin SupportedColumns}

\* C15: an override entry whose column is not a supported column is ignored:
\* the call raises no error and returns the table that the same call returns
\* with that entry removed from the overrides.
C15_UnknownColumnIgnored ==
    call.status # "none" =>
        \A e \in Unsupported :
            LET without == recalc_abay_path(call.input, call.overrides \ {e},
                                            call.initial_abay_ft, call.edit_from,
                                            call.clamp_to_head, call.clamp_to_minmax)
            IN  /\ call.status = without.status
                /\ call.out = without.out

(***************************************************************************)
(* Further properties of the Optimizer                                     *)
(***************************************************************************)
\* C16: build_and_solve never raises because of the solve outcome: once the
\* model is built, whatever the solver run does (infeasible, failing) the
\* call ends by returning a table with the solver's status, and the model is
\* not solved again with other bounds.
C16_SolveOutcomeReturned ==
    (opt.status # "none" /\ ~ Solving) =>
        /\ opt.status \in {"Optimal", "Infeasible", "Unbounded", "Not Solved", "Undefined"}
        /\ opt.status = "Optimal" =>
              opt_feasible(DefaultConfig, opt.rows, opt.initial_elev_ft,
                           opt.initial_gen_mw, opt.flags, opt.g, opt.s)


\* ---------------------------------------------------------------------------
\* cli.py: compute_setpoint_change_annotations.  Generation and setpoints are
\* in hundredths of a MW, the ramp rate in thousandths of a MW per minute
\* (0.042 MW/min = 42), instants and durations in hundredths of a minute
\* counted from the start of the first hour, so that he[t] = 6000 * t.
\* ---------------------------------------------------------------------------

MaxT == 3

OXPH_RAMP_RATE_MW_PER_MIN == 42

\* "" in change_time_str
NoTime == -1

he(t) == 6000 * t

\* lines 47 and 66: abs(g_right - g_left) / r, for r # 0
ramp_minutes(g_left, g_right, r) == (Abs(g_right - g_left) * 1000) \div r

\* lines 44, 52, 63, 74: the generation at the start of hour t
ann_g_prev(g_end, initial_gen_mw, t) == IF t = 1 THEN initial_gen_mw ELSE g_end[t - 1]

\* mutant: the ramp time not capped at the hour
ann_g_avg_uncapped(g_prev, g_right, r) ==
    g_prev + (ramp_minutes(g_prev, g_right, r) * (g_right - g_prev)) \div 12000

\* lines 46-51
ann_g_avg(g_prev, g_right, r) ==
    g_prev + (Min(ramp_minutes(g_prev, g_right, r), 6000) * (g_right - g_prev)) \div 12000

\* lines 61-67: cum after the scan from hour h has taken in hour t
RECURSIVE ann_cum(_, _, _, _, _)
ann_cum(g_end, initial_gen_mw, r, h, t) ==
    IF t < h THEN 0
    ELSE ann_cum(g_end, initial_gen_mw, r, h, t - 1)
         + ramp_minutes(ann_g_prev(g_end, initial_gen_mw, t), g_end[t], r)

\* line 68
latest_start(g_end, initial_gen_mw, r, h, t) == he(t) - ann_cum(g_end, initial_gen_mw, r, h, t)

\* mutant: the start of the hour counted as inside it
ann_inside_closed_start(g_end, initial_gen_mw, r, h) ==
    {t \in h..Len(g_end) :
        /\ he(h) - 6000 <= latest_start(g_end, initial_gen_mw, r, h, t)
        /\ latest_start(g_end, initial_gen_mw, r, h, t) <= he(h)}

\* line 69: the hours t >= h whose latest start falls inside hour h
ann_inside(g_end, initial_gen_mw, r, h) ==
    {t \in h..Len(g_end) :
        /\ he(h) - 6000 < latest_start(g_end, initial_gen_mw, r, h, t)
        /\ latest_start(g_end, initial_gen_mw, r, h, t) <= he(h)}

\* line 71: strftime("%I:%M %p") keeps the clock minute and drops the seconds
\* and the date (the horizon starts at midnight)
strftime(instant) == (instant \div 100) % 1440

\* lines 64-74: the scan stops at the first hour found
ann_change_time(g_end, initial_gen_mw, r, h) ==
    IF ann_inside(g_end, initial_gen_mw, r, h) = {} THEN NoTime
    ELSE strftime(latest_start(g_end, initial_gen_mw, r, h, SetMin(ann_inside(g_end, initial_gen_mw, r, h))))

ann_setpoint_override(g_end, s_target, initial_gen_mw, r, h) ==
    IF ann_inside(g_end, initial_gen_mw, r, h) = {} THEN s_target[h]
    ELSE Max(s_target[h], s_target[SetMin(ann_inside(g_end, initial_gen_mw, r, h))])

\* lines 34-78.  Python's float division raises ZeroDivisionError for a zero
\* divisor (line 47, reached as soon as there is one hour); line 76 reads
\* setpoint_override.iloc[0], which raises IndexError for an empty horizon.
compute_setpoint_change_annotations(g_end, s_target, initial_gen_mw, ramp_mw_per_min) ==
    IF Len(g_end) >= 1 /\ ramp_mw_per_min = 0
    THEN [status |-> "ZeroDivisionError", setpoint_override |-> << >>,
          change_time_str |-> << >>, g_avg |-> << >>]
    ELSE IF Len(g_end) = 0
    THEN [status |-> "IndexError", setpoint_override |-> << >>,
          change_time_str |-> << >>, g_avg |-> << >>]
    ELSE [status |-> "ok",
          setpoint_override |->
              [h \in 1..Len(g_end) |->
                  ann_setpoint_override(g_end, s_target, initial_gen_mw, ramp_mw_per_min, h)],
          change_time_str |->
              [h \in 1..Len(g_end) |->
                  ann_change_time(g_end, initial_gen_mw, ramp_mw_per_min, h)],
          g_avg |->
              [t \in 1..Len(g_end) |->
                  ann_g_avg(ann_g_prev(g_end, initial_gen_mw, t), g_end[t], ramp_mw_per_min)]]

\* The inputs of the check: schedules of up to MaxT hours
AnnGens == {80, 332, 580}

AnnHour == [g : AnnGens, s : {0, 600}]

AnnSchedules == UNION {[1..n -> AnnHour] : n \in 0..MaxT}

AnnTarget(hour) == IF hour.s = 0 THEN hour.g ELSE hour.s

RampRates == {0, OXPH_RAMP_RATE_MW_PER_MIN}

AnnInit ==
    /\ ann = NoCall
    /\ df = << >> /\ overrides = {} /\ call = NoCall /\ opt = NoCall
    /\ phys = NoCall /\ bias24 = NoCall
    /\ optimization_run = NoCall /\ alert_threshold = NoCall

Annotate(sched, initial_gen_mw, ramp_mw_per_min) ==
    /\ ann.status = "none"
    /\ ann' = [g_end |-> [t \in 1..Len(sched) |-> sched[t].g],
               s_target |-> [t \in 1..Len(sched) |-> AnnTarget(sched[t])],
               initial_gen_mw |-> initial_gen_mw,
               ramp_mw_per_min |-> ramp_mw_per_min]
              @@ compute_setpoint_change_annotations(
                     [t \in 1..Len(sched) |-> sched[t].g],
                     [t \in 1..Len(sched) |-> AnnTarget(sched[t])],
                     initial_gen_mw, ramp_mw_per_min)
    /\ UNCHANGED <<df, overrides, call, opt, phys, bias24, optimization_run, alert_threshold>>

AnnNext ==
    \E sched \in AnnSchedules, g0 \in {80, 580}, r \in RampRates : Annotate(sched, g0, r)

SpecAnnotations == AnnInit /\ [][AnnNext]_vars

\* C17: with a ramp rate of zero the call returns normally, every ramp time
\* being zero minutes: the hour average is the generation at the start of the
\* hour and no setpoint is changed.
C17_ZeroRampReturns ==
    (ann.status # "none" /\ ann.ramp_mw_per_min = 0 /\ Len(ann.g_end) >= 1)
        => /\ ann.status = "ok"
           /\ \A t \in 1..Len(ann.g_end) :
                  ann.g_avg[t] = ann_g_prev(ann.g_end, ann.initial_gen_mw, t)

\* ---------------------------------------------------------------------------
\* bias.py: compute_bias_cfs_24h on a lookback table, one record per hour, the
\* columns of expected_abay_net_cfs and Afterbay_Elevation (hundredths of a
\* foot, NaN where the measurement is missing).
\* ---------------------------------------------------------------------------

\* physics.py line 11: C_COEF = 780566.0 AF, the storage the curve gives at 0 ft
C_COEF == 78056600

\* physics.py 13-15 on one element of elev.apply: to_numeric_series turns a
\* missing elevation into the default 0.0 before the curve is evaluated
physics_abay_feet_to_af(ft) ==
    IF to_numeric_series(ft) = 0 THEN C_COEF ELSE abay_feet_to_af(to_numeric_series(ft))

\* CFS_PER_AF_HOUR = 1.0 / AF_PER_CFS_HOUR = 12.1
CFS_PER_AF_HOUR(af) == (af \div 10) * 121 + ((af % 10) * 121) \div 10

BIAS_CLIP == 200000

BIAS_TAIL == 24

\* line 10: expected_abay_net_cfs(lookback_df).astype(float), at row i
bias_exp_net(lookback_df, i) == expected_abay_net_cfs(lookback_df[i])

\* lines 11-14: af.diff() * CFS_PER_AF_HOUR, at row i
bias_act_net(lookback_df, i) ==
    IF i = 1 THEN NaN
    ELSE CFS_PER_AF_HOUR(physics_abay_feet_to_af(lookback_df[i].Afterbay_Elevation)
                         - physics_abay_feet_to_af(lookback_df[i - 1].Afterbay_Elevation))

\* line 15: the rows that survive dropna()
bias_pair(lookback_df) ==
    {i \in 1..Len(lookback_df) :
        notna(bias_exp_net(lookback_df, i)) /\ notna(bias_act_net(lookback_df, i))}

\* line 18
hourly_bias(lookback_df, i) == bias_act_net(lookback_df, i) - bias_exp_net(lookback_df, i)

\* line 19
bias_trimmed(lookback_df, i) == Max(-BIAS_CLIP, Min(BIAS_CLIP, hourly_bias(lookback_df, i)))

\* line 20: tail(24), the rows averaged
bias_tail(lookback_df) ==
    {i \in bias_pair(lookback_df) :
        Cardinality({j \in bias_pair(lookback_df) : j > i}) < BIAS_TAIL}

RECURSIVE bias_sum(_, _)
bias_sum(lookback_df, S) ==
    IF S = {} THEN 0
    ELSE bias_trimmed(lookback_df, SetMin(S)) + bias_sum(lookback_df, S \ {SetMin(S)})

\* line 20: mean()
bias_mean(lookback_df, S) == bias_sum(lookback_df, S) \div Cardinality(S)

\* mutant: the elevations are filled in place
bias_lookback_after_filled(lookback_df) ==
    [i \in 1..Len(lookback_df) |->
        [lookback_df[i] EXCEPT !.Afterbay_Elevation = to_numeric_series(@)]]

\* lines 8-20 and physics.py 103-128: the caller's table after the call; every
\* statement builds a new Series (to_numeric(...).fillna, apply, diff, concat,
\* clip) and none assigns into lookback_df
bias_lookback_after(lookback_df) == lookback_df

\* lines 6-20: the value returned and the caller's table after the call
compute_bias_cfs_24h(lookback_df) ==
    IF Len(lookback_df) = 0
    THEN [value |-> 0, after |-> lookback_df]
    ELSE IF bias_pair(lookback_df) = {}
    THEN [value |-> 0, after |-> bias_lookback_after(lookback_df)]
    ELSE [value |-> bias_mean(lookback_df, bias_tail(lookback_df)),
          after |-> bias_lookback_after(lookback_df)]

\* The lookbacks of the check: up to MaxOld varied hours, then none or
\* BIAS_TAIL identical hours, then up to MaxRecent varied hours
MaxOld == 1

MaxRecent == 2

BiasRow(elev, mfra, mode) ==
    [R30_Flow |-> 80000, R4_Flow |-> 20000, R20_Flow |-> 5000, R5L_Flow |-> 3000,
     R26_Flow |-> 2000, MFP_Total_Gen_GEN_MDFK_and_RA |-> mfra, Oxbow_Power |-> 300,
     CCS_Mode |-> mode, Afterbay_Elevation |-> elev]

BiasRows ==
    {BiasRow(elev, 15000, ModeNum(0)) : elev \in {NaN, 117000, 117050, 117300}}
        \cup {BiasRow(117000, 0, ModeNum(100))}

BiasFiller(n) == [i \in 1..n |-> BiasRow(117000, 15000, ModeNum(0))]

Lookbacks ==
    {old \o BiasFiller(n) \o recent :
        old \in UNION {[1..k -> BiasRows] : k \in 0..MaxOld},
        n \in {0, BIAS_TAIL},
        recent \in UNION {[1..k -> BiasRows] : k \in 0..MaxRecent}}

BiasInit ==
    /\ bias24 = NoCall
    /\ df = << >> /\ overrides = {} /\ call = NoCall /\ opt = NoCall
    /\ phys = NoCall /\ ann = NoCall
    /\ optimization_run = NoCall /\ alert_threshold = NoCall

\* bias_cfs = compute_bias_cfs_24h(lookback)
Bias(lookback) ==
    /\ bias24.status = "none"
    /\ bias24' = [status |-> "once", lookback_df |-> lookback, again |-> NaN]
                     @@ compute_bias_cfs_24h(lookback)
    /\ UNCHANGED <<df, overrides, call, opt, phys, ann, optimization_run, alert_threshold>>

\* a second call on the table the first call left
BiasAgain ==
    /\ bias24.status = "once"
    /\ bias24' = [status |-> "twice", lookback_df |-> bias24.lookback_df,
                  value |-> bias24.value,
                  again |-> compute_bias_cfs_24h(bias24.after).value,
                  after |-> compute_bias_cfs_24h(bias24.after).after]
    /\ UNCHANGED <<df, overrides, call, opt, phys, ann, optimization_run, alert_threshold>>

BiasNext ==
    \/ \E lookback \in Lookbacks : Bias(lookback)
    \/ BiasAgain

SpecBias == BiasInit /\ [][BiasNext]_vars

\* the documented quantities, on the lookback of the last call
Measured(i) == notna(bias24.lookback_df[i].Afterbay_Elevation)

ValidHours ==
    {i \in 2..Len(bias24.lookback_df) : Measured(i) /\ Measured(i - 1)}

DocDifference(i) ==
    CFS_PER_AF_HOUR(abay_feet_to_af(bias24.lookback_df[i].Afterbay_Elevation)
                    - abay_feet_to_af(bias24.lookback_df[i - 1].Afterbay_Elevation))
        - expected_abay_net_cfs(bias24.lookback_df[i])

DocClip(x) == IF x < -200000 THEN -200000 ELSE IF x > 200000 THEN 200000 ELSE x

RecentValidHours ==
    {i \in ValidHours : Cardinality({j \in ValidHours : j > i}) < 24}

RECURSIVE DocSum(_)
DocSum(S) ==
    IF S = {} THEN 0
    ELSE LET i == CHOOSE x \in S : TRUE IN DocClip(DocDifference(i)) + DocSum(S \ {i})

\* C18: the bias is 0.0 for an empty lookback and for every lookback with no
\* hour whose observed net inflow comes from two consecutive measured
\* elevations (one row, or no measured elevation at all).
C18_NoValidHourGivesZero ==
    (bias24.status # "none" /\ ValidHours = {}) => bias24.value = 0

AllMeasured == \A i \in 1..Len(bias24.lookback_df) : Measured(i)

DocMean == DocSum(RecentValidHours) \div Cardinality(RecentValidHours)

\* C19: with n >= 1 valid hourly differences the bias is the mean of the
\* differences, each clipped to [-2000, 2000] cfs, over the most recent
\* min(24, n) valid hours, and lies in [-2000, 2000] cfs.
C19_ClippedMeanOfRecentValidHours ==
    (bias24.status # "none" /\ ValidHours # {})
        => /\ bias24.value = DocMean
           /\ bias24.value >= -200000 /\ bias24.value <= 200000

\* the same statement for lookbacks whose elevations are all measured
BiasIsClippedMeanWhenAllMeasured ==
    (bias24.status # "none" /\ AllMeasured) => C19_ClippedMeanOfRecentValidHours

C19_WitnessWindow ==
    /\ bias24.status = "once" /\ AllMeasured
    /\ Cardinality(ValidHours) > 24
    /\ \E i \in ValidHours \ RecentValidHours : DocDifference(i) # bias24.value
    /\ \E i \in RecentValidHours : DocClip(DocDifference(i)) # DocDifference(i)

NElevations == 150

\* every 0.08 ft from the minimum operating elevation, and three elevations
\* of the lower branch
CurveElevations ==
    {ABAY_MIN_ELEV_FT + 8 * k : k \in 0..NElevations} \cup {100000, 110000, 111200}

CurveStorages == {-100000, -10000, -3924, CURVE_VERTEX_AF, 0, 150000, 250000}

CurveInit ==
    /\ phys = NoCall
    /\ df = << >> /\ overrides = {} /\ call = NoCall /\ opt = NoCall
    /\ ann = NoCall /\ bias24 = NoCall
    /\ optimization_run = NoCall /\ alert_threshold = NoCall

\* abay_af_to_feet(abay_feet_to_af(ft))
RoundTrip(ft) ==
    /\ phys.status = "none"
    /\ phys' = [status |-> "roundtrip", ft |-> ft, af |-> abay_feet_to_af(ft),
                back |-> abay_af_to_feet(abay_feet_to_af(ft))]
    /\ UNCHANGED <<df, overrides, call, opt, ann, bias24, optimization_run, alert_threshold>>

\* abay_af_to_feet(af)
Invert(af) ==
    /\ phys.status = "none"
    /\ phys' = [status |-> "inverse", af |-> af, ft |-> abay_af_to_feet(af)]
    /\ UNCHANGED <<df, overrides, call, opt, ann, bias24, optimization_run, alert_threshold>>

CurveNext ==
    \/ \E ft \in CurveElevations : RoundTrip(ft)
    \/ \E af \in CurveStorages : Invert(af)

SpecCurve == CurveInit /\ [][CurveNext]_vars

C21_WitnessClamp ==
    /\ phys.status = "inverse"
    /\ phys.af < CURVE_VERTEX_AF
    /\ phys.ft = CURVE_VERTEX_FT

\* an elevation of the lower branch is not recovered
C21_WitnessLowerBranch ==
    /\ phys.status = "roundtrip"
    /\ phys.ft < CURVE_VERTEX_FT
    /\ phys.back > CURVE_VERTEX_FT

(***************************************************************************)
(* Further properties of the Recalculator: curve consistency, the caller's *)
(* table, seeding and idempotence                                          *)
(***************************************************************************)
\* the storage of the curve at an elevation within one unit (0.01 ft) of ft
OnCurve(af, ft) ==
    /\ af >= abay_feet_to_af(ft - 1) - 1
    /\ af <= abay_feet_to_af(ft + 1) + 1

\* C22: on every recomputed row the output storage is the storage of the
\* curve at the output elevation, within the resolution of the elevation,
\* with or without the float cap and for any inflow and generation.
C22_StorageOnCurve ==
    \A i \in Recomputed : OnCurve(call.out[i].ABAY_af, call.out[i].ABAY_ft)

\* the same, for rows whose integrated storage is not below the curve's minimum
StorageOnCurveAboveMinimum ==
    \A i \in Recomputed :
        Hour(i).AF_int >= CURVE_VERTEX_AF
            => OnCurve(call.out[i].ABAY_af, call.out[i].ABAY_ft)

\* ---------------------------------------------------------------------------
\* Two calls of recalc_abay_path in a row, with and without inplace: the
\* second call is made on the table the caller passed to the first call or on
\* the table the first call returned, as the views do with a stored schedule.
\* ---------------------------------------------------------------------------

\* mutant: the copy of line 214 not taken
recalc_table_after_shared(c) ==
    c @@ [after |-> IF c.status = "ok" THEN c.out
                    ELSE apply_overrides(c.input, c.overrides),
          aliased |-> TRUE]

\* lines 213-216 and 218-228, 356-368: the table the caller passed, after
\* the call.  With inplace the overrides are written to it before any error
\* is raised and the recomputed rows after the loop, and it is the table
\* returned; without, a copy takes the writes.
recalc_table_after(c) ==
    c @@ [after |-> IF ~c.inplace THEN c.input
                    ELSE IF c.status = "ok" THEN c.out
                    ELSE apply_overrides(c.input, c.overrides),
          aliased |-> c.inplace]

\* recalc_abay_path(forecast_df, overrides, initial_abay_ft, inplace=inplace)
\* with the default edit_from and clamps: arguments, result and the table
\* passed after the call
recalc_call(forecast_df, ov, initial_abay_ft, inplace) ==
    recalc_table_after(
        [input |-> forecast_df, overrides |-> ov,
         initial_abay_ft |-> initial_abay_ft, inplace |-> inplace]
            @@ recalc_abay_path(forecast_df, ov, initial_abay_ft, NaN, TRUE, TRUE))

\* the overrides of the second call: none, or one generation edit on the
\* second or the last row, or one after the last row
SecondOverrides ==
    {{}} \cup {{[col |-> "OXPH_generation_MW", ts |-> ts, val |-> 700]} :
                  ts \in {Index[2], Index[NRows], Index[NRows] + 1}}

SessionElevations == {NaN, 117410}

\* the tables of the session: those above, and an ordinary GEN table whose
\* scheduled generation is above the maximum or below the minimum
SessionTables ==
    RawTables
        \cup {[i \in Rows |-> [TemplateGen EXCEPT !.OXPH_generation_MW = g]] : g \in {700, -50}}

SessionInit ==
    /\ df \in SessionTables
    /\ overrides = {}
    /\ call = [status |-> "none", calls |-> 0]
    /\ opt = NoCall /\ phys = NoCall /\ ann = NoCall /\ bias24 = NoCall
    /\ optimization_run = NoCall /\ alert_threshold = NoCall

\* the first call, with no overrides
RecalcFirst(initial_abay_ft, inplace) ==
    /\ call.calls = 0
    /\ call' = [calls |-> 1, first |-> << >>, first_abay_ft |-> initial_abay_ft]
                   @@ recalc_call(df, {}, initial_abay_ft, inplace)
    /\ df' = call'.after
    /\ UNCHANGED <<overrides, opt, phys, ann, bias24, optimization_run, alert_threshold>>

\* the second call on the caller's own table
RecalcSecondOnOwn(ov, initial_abay_ft, inplace) ==
    /\ call.calls = 1
    /\ call' = [calls |-> 2, first |-> call.out, first_abay_ft |-> call.first_abay_ft,
                on_returned |-> FALSE]
                   @@ recalc_call(df, ov, initial_abay_ft, inplace)
    /\ df' = call'.after
    /\ overrides' = ov
    /\ UNCHANGED <<opt, phys, ann, bias24, optimization_run, alert_threshold>>

\* the second call on the table the first call returned
RecalcSecondOnReturned(ov, initial_abay_ft, inplace) ==
    /\ call.calls = 1
    /\ call.status = "ok"
    /\ call' = [calls |-> 2, first |-> call.out, first_abay_ft |-> call.first_abay_ft,
                on_returned |-> TRUE]
                   @@ recalc_call(call.out, ov, initial_abay_ft, inplace)
    /\ overrides' = ov
    /\ UNCHANGED <<df, opt, phys, ann, bias24, optimization_run, alert_threshold>>

SessionNext ==
    \/ \E h0 \in InitialElevations, inplace \in BOOLEAN : RecalcFirst(h0, inplace)
    \/ \E ov \in SecondOverrides, h0 \in SessionElevations, inplace \in BOOLEAN :
           RecalcSecondOnOwn(ov, h0, inplace)
    \/ \E ov \in SecondOverrides, h0 \in SessionElevations, inplace \in BOOLEAN :
           RecalcSecondOnReturned(ov, h0, inplace)

SpecSession == SessionInit /\ [][SessionNext]_vars

Called == call.calls >= 1

C23_WitnessError ==
    /\ Called /\ ~call.inplace
    /\ call.status = "ValueError"
    /\ call.overrides # {}
    /\ call.after = call.input

\* the table the overrides were applied to, as the seeding reads it
Seeded == apply_overrides(call.input, call.overrides)

StartRow == start_index(call.overrides, NaN)

\* C24: a recalculation from the first row takes initial_abay_ft as the
\* previous-hour elevation and raises when it is None; one from a later row
\* takes storage and elevation from the row before the start row, and takes
\* initial_abay_ft only when that row has no ABAY_af, raising when both are
\* missing.
C24_Seeding ==
    (Called /\ StartRow >= 1) =>
        IF StartRow = 1 \/ isnan(Seeded[StartRow - 1].ABAY_af)
        THEN IF isnan(call.initial_abay_ft)
             THEN call.status = "ValueError"
             ELSE /\ call.status = "ok"
                  /\ call.hours[1].H_prev = call.initial_abay_ft
                  /\ call.hours[1].AF_prev = abay_feet_to_af(call.initial_abay_ft)
        ELSE /\ call.status = "ok"
             /\ call.hours[1].AF_prev = Seeded[StartRow - 1].ABAY_af
             /\ call.hours[1].H_prev = Seeded[StartRow - 1].ABAY_ft

\* a later start row seeded from the row before it, initial_abay_ft given too
C24_Witness ==
    /\ call.calls = 2 /\ call.status = "ok"
    /\ StartRow > 1
    /\ notna(call.initial_abay_ft)
    /\ call.hours[1].AF_prev = call.input[StartRow - 1].ABAY_af
    /\ call.hours[1].H_prev # call.initial_abay_ft

\* a later start row with no ABAY_af before it: initial_abay_ft used
C24_WitnessFallback ==
    /\ call.calls = 2 /\ call.status = "ok"
    /\ StartRow > 1
    /\ isnan(call.input[StartRow - 1].ABAY_af)
    /\ call.hours[1].H_prev = call.initial_abay_ft

\* both missing
C24_WitnessBothMissing ==
    /\ call.calls = 2 /\ call.status = "ValueError"
    /\ StartRow > 1
    /\ isnan(call.input[StartRow - 1].ABAY_af)
    /\ isnan(call.initial_abay_ft)

\* seeded from the row before without initial_abay_ft
C24_WitnessNoInitial ==
    /\ call.calls = 2 /\ call.status = "ok"
    /\ StartRow > 1
    /\ isnan(call.initial_abay_ft)

\* the second call repeats the first on the table the first returned
Repeated ==
    /\ call.calls = 2 /\ call.on_returned
    /\ call.overrides = {}
    /\ call.initial_abay_ft = call.first_abay_ft

\* C30: recalc_abay_path with no overrides and the same initial elevation,
\* applied to the table a recalculation from the first row returned, returns
\* the same OXPH_generation_MW, ABAY_af and ABAY_ft on every row.
C30_RecalcIdempotent ==
    Repeated =>
        /\ call.status = "ok"
        /\ \A i \in Rows :
               /\ call.out[i].OXPH_generation_MW = call.first[i].OXPH_generation_MW
               /\ call.out[i].ABAY_af = call.first[i].ABAY_af
               /\ call.out[i].ABAY_ft = call.first[i].ABAY_ft

\* a repeated call whose first call lowered a scheduled generation to the
\* head cap
C30_Witness ==
    /\ Repeated /\ call.status = "ok"
    /\ \E i \in Rows :
           /\ call.first[i].violates_head = "True"
           /\ call.out[i].violates_head = "False"
           /\ call.out[i].OXPH_generation_MW < 700

\* ... raised one to the minimum
C30_WitnessMin ==
    /\ Repeated /\ call.status = "ok"
    /\ \E i \in Rows : call.first[i].OXPH_generation_MW = OXPH_MIN_MW

\* ... held the elevation at the float level
C30_WitnessFloat ==
    /\ Repeated /\ call.status = "ok"
    /\ \E i \in Rows : call.first[i].ABAY_ft = call.first[i].FLOAT_FT

\* ---------------------------------------------------------------------------
\* django_backend/optimization_api: one OptimizationRun, the request handler
\* RunOptimizationView.post that creates and dispatches it, the worker task
\* run_optimization_task, and the status endpoint.  A row is the record of the
\* columns the two write: status, progress_percentage, task_id.  Model.save()
\* without update_fields writes every column of the instance that is saved.
\* ---------------------------------------------------------------------------

MaxProgressUpdates == 2

NoTask == "None"

TaskId == "task"

NoRow == [status |-> "none", progress_percentage |-> 0, task_id |-> NoTask]

\* views.py 576-585: OptimizationRun.objects.create(..., status='pending')
NewRun == [status |-> "pending", progress_percentage |-> 0, task_id |-> NoTask]

\* models.py 151-156: update_progress saves progress_message and
\* progress_percentage only
update_progress(row, percentage) ==
    [row EXCEPT !.progress_percentage = Min(100, Max(0, percentage))]

\* tasks.py 357-362 on the worker's instance
task_completed(run) == [run EXCEPT !.status = "completed", !.progress_percentage = 100]

\* tasks.py 384-389 on an instance read again from the database
task_failed(row) == [row EXCEPT !.status = "failed"]

\* tasks.py 107-114 then 357-362 or 380-389, run to the end on the row given:
\* the row the task leaves in the database
task_eager(row, outcome) ==
    IF outcome = "completed" THEN task_completed([row EXCEPT !.status = "running"])
    ELSE task_failed([row EXCEPT !.status = "running"])

RunInit ==
    /\ optimization_run \in
           [eager : BOOLEAN, db : {NoRow},
            handler : {[pc |-> "create", run |-> NoRow]},
            worker : {[pc |-> "idle", run |-> NoRow, updates |-> 0, outcome |-> "none"]},
            response : {[status |-> "none", progress_percentage |-> 0]}]
    /\ df = << >> /\ overrides = {} /\ call = NoCall /\ opt = NoCall
    /\ phys = NoCall /\ ann = NoCall /\ bias24 = NoCall /\ alert_threshold = NoCall

\* views.py 576-585
PostCreate ==
    /\ optimization_run.handler.pc = "create"
    /\ optimization_run' =
           [optimization_run EXCEPT !.db = NewRun,
                                    !.handler = [pc |-> "delay", run |-> NewRun]]
    /\ UNCHANGED <<df, overrides, call, opt, phys, ann, bias24, alert_threshold>>

\* views.py 590: run_optimization_task.delay(run.id, ...); with
\* CELERY_TASK_ALWAYS_EAGER the task runs to its end inside the call
PostDelay(outcome) ==
    /\ optimization_run.handler.pc = "delay"
    /\ optimization_run' =
           IF optimization_run.eager
           THEN [optimization_run EXCEPT
                    !.db = task_eager(@, outcome),
                    !.worker = [pc |-> "ready", run |-> task_eager(optimization_run.db, outcome),
                                updates |-> 0, outcome |-> outcome],
                    !.handler.pc = "check"]
           ELSE [optimization_run EXCEPT !.worker.pc = "queued", !.handler.pc = "check"]
    /\ UNCHANGED <<df, overrides, call, opt, phys, ann, bias24, alert_threshold>>

\* views.py 591-596: task_id set on the handler's instance, and status set to
\* running unless task.ready()
PostCheckReady ==
    /\ optimization_run.handler.pc = "check"
    /\ optimization_run' =
           [optimization_run EXCEPT
               !.handler.pc = "save",
               !.handler.run.task_id = TaskId,
               !.handler.run.status =
                   IF optimization_run.worker.pc # "ready" THEN "running" ELSE @]
    /\ UNCHANGED <<df, overrides, call, opt, phys, ann, bias24, alert_threshold>>

\* views.py 597: run.save()
PostSave ==
    /\ optimization_run.handler.pc = "save"
    /\ optimization_run' =
           [optimization_run EXCEPT !.handler.pc = "done",
                                    !.db = optimization_run.handler.run]
    /\ UNCHANGED <<df, overrides, call, opt, phys, ann, bias24, alert_threshold>>

\* tasks.py 107-108: run = OptimizationRun.objects.get(id=run_id)
TaskGet ==
    /\ optimization_run.worker.pc = "queued"
    /\ optimization_run' =
           [optimization_run EXCEPT !.worker.pc = "loaded",
                                    !.worker.run = optimization_run.db]
    /\ UNCHANGED <<df, overrides, call, opt, phys, ann, bias24, alert_threshold>>

\* tasks.py 111-114: status = 'running'; run.save()
TaskRunning ==
    /\ optimization_run.worker.pc = "loaded"
    /\ optimization_run' =
           [optimization_run EXCEPT
               !.worker.pc = "running",
               !.worker.run.status = "running",
               !.db = [optimization_run.worker.run EXCEPT !.status = "running"]]
    /\ UNCHANGED <<df, overrides, call, opt, phys, ann, bias24, alert_threshold>>

\* tasks.py 121, 134, ...: run.update_progress(message, percentage)
TaskProgress(percentage) ==
    /\ optimization_run.worker.pc = "running"
    /\ optimization_run.worker.updates < MaxProgressUpdates
    /\ percentage > optimization_run.worker.run.progress_percentage
    /\ optimization_run' =
           [optimization_run EXCEPT
               !.worker.updates = @ + 1,
               !.worker.run = update_progress(@, percentage),
               !.db = update_progress(@, percentage)]
    /\ UNCHANGED <<df, overrides, call, opt, phys, ann, bias24, alert_threshold>>

\* tasks.py 357-362
TaskCompleted ==
    /\ optimization_run.worker.pc = "running"
    /\ optimization_run' =
           [optimization_run EXCEPT
               !.worker.pc = "saved",
               !.worker.outcome = "completed",
               !.worker.run = task_completed(@),
               !.db = task_completed(optimization_run.worker.run)]
    /\ UNCHANGED <<df, overrides, call, opt, phys, ann, bias24, alert_threshold>>

\* tasks.py 299-306: the pipeline failed; the worker's instance is saved
TaskPipelineFailed ==
    /\ optimization_run.worker.pc = "running"
    /\ optimization_run' =
           [optimization_run EXCEPT
               !.worker.pc = "saved",
               !.worker.outcome = "failed",
               !.worker.run.status = "failed",
               !.db = [optimization_run.worker.run EXCEPT !.status = "failed"]]
    /\ UNCHANGED <<df, overrides, call, opt, phys, ann, bias24, alert_threshold>>

\* tasks.py 380-389
TaskFailed ==
    /\ optimization_run.worker.pc = "running"
    /\ optimization_run' =
           [optimization_run EXCEPT
               !.worker.pc = "saved",
               !.worker.outcome = "failed",
               !.worker.run = task_failed(optimization_run.db),
               !.db = task_failed(@)]
    /\ UNCHANGED <<df, overrides, call, opt, phys, ann, bias24, alert_threshold>>

\* tasks.py 364-378, 393-399: the task's state becomes SUCCESS or FAILURE and
\* task.ready() true
TaskReturn ==
    /\ optimization_run.worker.pc = "saved"
    /\ optimization_run' = [optimization_run EXCEPT !.worker.pc = "ready"]
    /\ UNCHANGED <<df, overrides, call, opt, phys, ann, bias24, alert_threshold>>

\* views.py 885-898: OptimizationStatusView.get with the task id of the
\* response of the post
StatusGet ==
    /\ optimization_run.handler.pc = "done"
    /\ optimization_run' =
           [optimization_run EXCEPT
               !.response =
                   IF optimization_run.db.task_id = TaskId
                   THEN [status |-> optimization_run.db.status,
                         progress_percentage |-> optimization_run.db.progress_percentage]
                   ELSE [status |-> "DoesNotExist", progress_percentage |-> 0]]
    /\ UNCHANGED <<df, overrides, call, opt, phys, ann, bias24, alert_threshold>>

RunNext ==
    \/ PostCreate
    \/ \E outcome \in {"completed", "failed"} : PostDelay(outcome)
    \/ PostCheckReady
    \/ PostSave
    \/ TaskGet
    \/ TaskRunning
    \/ \E percentage \in {5, 20} : TaskProgress(percentage)
    \/ TaskCompleted
    \/ TaskPipelineFailed
    \/ TaskFailed
    \/ TaskReturn
    \/ StatusGet

SpecRun == RunInit /\ [][RunNext]_vars

\* the worker has saved completed or failed
WorkerDone == optimization_run.worker.outcome # "none"

\* C25: once the worker task has set the run to completed (progress 100) or
\* failed, the row keeps that status whatever the request handler does
\* afterwards, under eager and queued execution.
C25_FinalStatusKept ==
    WorkerDone =>
        /\ optimization_run.db.status = optimization_run.worker.outcome
        /\ optimization_run.worker.outcome = "completed"
               => optimization_run.db.progress_percentage = 100

\* the same for queued execution only
FinalStatusKeptWhenQueued == optimization_run.eager \/ C25_FinalStatusKept

\* the same for runs whose handler had saved before the worker read the row
FinalStatusKeptWhenHandlerFirst ==
    (optimization_run.worker.run.task_id = TaskId) => C25_FinalStatusKept

(***************************************************************************)
(* Further properties of compute_setpoint_change_annotations               *)
(***************************************************************************)
Annotated == ann.status = "ok"

AnnHours == 1..Len(ann.g_end)

\* the generation at the start of hour t
DocPrev(t) == IF t = 1 THEN ann.initial_gen_mw ELSE ann.g_end[t - 1]

\* |g_end[t] - g_end[t-1]| / r, in hundredths of a minute
DocStep(t) == (Abs(ann.g_end[t] - DocPrev(t)) * 1000) \div ann.ramp_mw_per_min

RECURSIVE DocCum(_, _)
DocCum(h, t) == IF t < h THEN 0 ELSE DocCum(h, t - 1) + DocStep(t)

\* he[t] - cum
DocInstant(h, t) == 6000 * t - DocCum(h, t)

DocInHour(h, x) == 6000 * (h - 1) < x /\ x <= 6000 * h

DocQualifying(h) == {t \in AnnHours : t >= h /\ DocInHour(h, DocInstant(h, t))}

DocFirst(h) == CHOOSE t \in DocQualifying(h) : \A u \in DocQualifying(h) : t <= u

\* C26: the change time of hour h is the instant he[t] - cum of the first
\* t >= h whose instant lies in (he[h] - 1 hour, he[h]], cum being the ramp
\* minutes accumulated from h to t; it lies inside hour h; an hour with no
\* such t has an empty change time.
C26_LatestStartInsideHour ==
    Annotated =>
        \A h \in AnnHours :
            IF DocQualifying(h) = {}
            THEN ann.change_time_str[h] = NoTime
            ELSE /\ ann.change_time_str[h] = (DocInstant(h, DocFirst(h)) \div 100) % 1440
                 /\ ann.change_time_str[h] >= 60 * (h - 1)
                 /\ ann.change_time_str[h] <= 60 * h

\* a later hour wins although a still later one qualifies too
C26_Witness ==
    /\ Annotated
    /\ \E h \in AnnHours :
           /\ Cardinality(DocQualifying(h)) >= 2
           /\ DocFirst(h) > h
           /\ ann.change_time_str[h] # NoTime
           /\ ann.change_time_str[h] < 60 * h

\* an hour with no qualifying t
C26_WitnessEmpty ==
    /\ Annotated
    /\ \E h \in AnnHours : DocQualifying(h) = {} /\ ann.change_time_str[h] = NoTime

\* C27: g_avg[t] = g_prev + (t_need / 120) * (g_end[t] - g_prev) with
\* t_need = min(|g_end[t] - g_prev| / r, 60); it lies between g_prev and the
\* midpoint of g_prev and g_end[t], and within [OXPH_MIN_MW, OXPH_MAX_MW] when
\* g_prev and g_end[t] do.
DocNeed(t) == IF DocStep(t) < 6000 THEN DocStep(t) ELSE 6000

Between(x, a, b) == (a <= x /\ x <= b) \/ (b <= x /\ x <= a)

C27_HourAverage ==
    Annotated =>
        \A t \in AnnHours :
            /\ ann.g_avg[t] = DocPrev(t) + (DocNeed(t) * (ann.g_end[t] - DocPrev(t))) \div 12000
            /\ Between(2 * ann.g_avg[t], 2 * DocPrev(t), DocPrev(t) + ann.g_end[t])
            /\ (/\ DocPrev(t) >= OXPH_MIN_MW /\ DocPrev(t) <= OXPH_MAX_MW
                /\ ann.g_end[t] >= OXPH_MIN_MW /\ ann.g_end[t] <= OXPH_MAX_MW)
                   => (ann.g_avg[t] >= OXPH_MIN_MW /\ ann.g_avg[t] <= OXPH_MAX_MW)

\* an hour whose ramp needs more than the hour, and one that needs less
C27_Witness ==
    /\ Annotated
    /\ \E t \in AnnHours : DocStep(t) > 6000 /\ 2 * ann.g_avg[t] = DocPrev(t) + ann.g_end[t]
    /\ \E t \in AnnHours : DocStep(t) > 0 /\ DocStep(t) < 6000 /\ ann.g_avg[t] # DocPrev(t)

(***************************************************************************)
(* optimizer.py, build_and_solve over a one-hour forecast, with the        *)
(* weights lam and the segment selectors seg of the storage curve kept as  *)
(* variables of the model.  A weight is a number of LamSteps-ths.          *)
(***************************************************************************)
LamSteps == 4

Points == 1 .. N_BREAKS
Segments == 1 .. (N_BREAKS - 1)

\* lines 80-86: H_max, H_min, global_h_min, global_h_max and the breakpoints
pwl_h_max(cfg, rows) == [t \in DOMAIN rows |-> rows[t].FLOAT_FT - cfg.float_buffer_ft]

pwl_global_h_min(cfg, initial_elev_ft) == Min(cfg.min_elev_ft, initial_elev_ft)

pwl_global_h_max(cfg, rows, initial_elev_ft) ==
    LET H_max == pwl_h_max(cfg, rows)
        top == CHOOSE t \in DOMAIN rows : \A u \in DOMAIN rows : H_max[t] >= H_max[u]
    IN  Max(H_max[top], initial_elev_ft)

pwl_points(cfg, rows, initial_elev_ft) ==
    piecewise_storage_breakpoints(pwl_global_h_min(cfg, initial_elev_ft),
                                  pwl_global_h_max(cfg, rows, initial_elev_ft))

\* lpSum(lam[(t, i)] * vals[i]), the weights being LamSteps-ths
RECURSIVE lpSum(_, _, _)
lpSum(lam, vals, n) ==
    IF n = 0 THEN 0 ELSE lpSum(lam, vals, n - 1) + lam[n] * vals[n]

\* mutant: lam_adj bounds a weight by the selectors of all segments
pwl_lam_adj_any_segment(lam, seg) ==
    LET RECURSIVE total(_)
        total(k) == IF k = 0 THEN 0 ELSE total(k - 1) + seg[k]
    IN  \A i \in 2 .. (N_BREAKS - 1) : lam[i] <= LamSteps * total(N_BREAKS - 1)

\* lines 124-125: lam_adj
pwl_lam_adj(lam, seg) ==
    \A i \in 2 .. (N_BREAKS - 1) : lam[i] <= LamSteps * (seg[i - 1] + seg[i])

\* lines 99-100 and 120-125: the bounds of lam and seg, lam_sum, seg_one,
\* lam0_seg, lamN_seg, lam_adj
pwl_sos2(lam, seg) ==
    /\ \A i \in Points : lam[i] >= 0 /\ lam[i] <= LamSteps
    /\ \A k \in Segments : seg[k] \in {0, 1}
    /\ lpSum(lam, [i \in Points |-> 1], N_BREAKS) = LamSteps
    /\ lpSum(seg, [k \in Segments |-> 1], N_BREAKS - 1) = 1
    /\ lam[1] <= LamSteps * seg[1]
    /\ lam[N_BREAKS] <= LamSteps * seg[N_BREAKS - 1]
    /\ pwl_lam_adj(lam, seg)

\* lines 127-128: H_link and A_link
pwl_H(pts, lam) == lpSum(lam, pts.H, N_BREAKS) \div LamSteps
pwl_A(pts, lam) == lpSum(lam, pts.A, N_BREAKS) \div LamSteps

\* line 146, wb_0 solved for g[0]: the generation that takes the storage
\* from A0 to A in the hour
pwl_generation(row, A0, A) ==
    ((opt_known(row) - CFS_PER_AF_HOUR(A - A0)) * 100) \div OXPH_MW_TO_CFS_FACTOR

\* every constraint of the model of a one-hour forecast outside the rafting
\* window (s[0] = g[0]); the slacks within [0, 10]
pwl_feasible(cfg, rows, initial_elev_ft, initial_gen_mw, lam, seg) ==
    LET pts == pwl_points(cfg, rows, initial_elev_ft)
        H == pwl_H(pts, lam)
        A == pwl_A(pts, lam)
        g == pwl_generation(rows[1], abay_feet_to_af(initial_elev_ft), A)
    IN  /\ pwl_sos2(lam, seg)
        /\ H >= 0 /\ H <= 200000
        /\ A >= 0
        /\ H <= pwl_h_max(cfg, rows)[1] + 1000
        /\ H >= cfg.min_elev_ft - 1000
        /\ g >= cfg.oxph_min_mw /\ g <= cfg.oxph_max_mw
        /\ g <= (OXPH_HEAD_LOSS_SLOPE * H) \div 10000 + OXPH_HEAD_LOSS_INTERCEPT
        /\ Abs(g - initial_gen_mw) <= cfg.ramp_mw_per_hour
        /\ g <= 1000

\* the values the model tries for seg: no segment, one segment, or two
\* segments that are neighbours or one apart
SegOf(a, b) == [k \in Segments |-> IF k = a \/ k = b THEN 1 ELSE 0]
SegValues == {SegOf(a, a + d) : a \in 0 .. (N_BREAKS - 1), d \in 0 .. 2}

\* the values the model tries for lam: weights that sum to 1 on one, two or
\* three breakpoints, neighbours or up to two apart, anywhere on the curve
LamOf(i, j, k, a, b) ==
    [n \in Points |-> (IF n = i THEN a ELSE 0) + (IF n = j THEN b ELSE 0)
                       + (IF n = k THEN LamSteps - a - b ELSE 0)]
LamValues ==
    {LamOf(q[1], q[1] + q[2], q[1] + q[2] + q[3], q[4], q[5]) :
        q \in {r \in Points \X (0 .. 1) \X (0 .. 2) \X (0 .. LamSteps) \X (0 .. LamSteps) :
                  r[1] + r[2] + r[3] <= N_BREAKS /\ r[4] + r[5] <= LamSteps}}

PwlElevations == {116750, 116800, 116900, 117000, 117100, 117200, 117300}
PwlFloats == {117500, 117250, 116850, 116800}
PwlTables == {<<[OptRow(ModeStr("GEN")) EXCEPT !.FLOAT_FT = f]>> : f \in PwlFloats}

PwlInit ==
    /\ opt = NoCall
    /\ df = << >> /\ overrides = {} /\ call = NoCall /\ phys = NoCall
    /\ ann = NoCall /\ bias24 = NoCall
    /\ optimization_run = NoCall /\ alert_threshold = NoCall

\* build_and_solve, lines 48-185
BuildPwl(rows, initial_elev_ft, initial_gen_mw) ==
    /\ opt.status = "none"
    /\ opt' = [status |-> "built", rows |-> rows, initial_elev_ft |-> initial_elev_ft,
               initial_gen_mw |-> initial_gen_mw,
               pts |-> pwl_points(DefaultConfig, rows, initial_elev_ft)]
    /\ UNCHANGED <<df, overrides, call, phys, ann, bias24, optimization_run, alert_threshold>>

\* lines 187-203 with a solver run that ends on a feasible point
SolvePwl(lam, seg) ==
    /\ opt.status = "built"
    /\ pwl_feasible(DefaultConfig, opt.rows, opt.initial_elev_ft, opt.initial_gen_mw,
                    lam, seg)
    /\ opt' = [status |-> "Optimal", rows |-> opt.rows,
               initial_elev_ft |-> opt.initial_elev_ft,
               initial_gen_mw |-> opt.initial_gen_mw, pts |-> opt.pts,
               lam |-> lam, seg |-> seg,
               H |-> pwl_H(opt.pts, lam), A |-> pwl_A(opt.pts, lam)]
    /\ UNCHANGED <<df, overrides, call, phys, ann, bias24, optimization_run, alert_threshold>>

PwlNext ==
    \/ \E rows \in PwlTables, h0 \in PwlElevations : BuildPwl(rows, h0, 332)
    \/ (opt.status = "built" /\ \E lam \in LamValues, seg \in SegValues : SolvePwl(lam, seg))

SpecPwl == PwlInit /\ [][PwlNext]_vars

PwlSolved == opt.status = "Optimal"

\* the segment the solution selects
Selected == CHOOSE k \in Segments : opt.seg[k] = 1

\* C28: in every feasible solution exactly one segment selector is 1, the
\* weights sum to 1, only the two breakpoints that bound the selected
\* segment carry weight, H and A are the same convex combination of the
\* breakpoints, and H lies between the first and the last breakpoint: from
\* min(min_elev, initial elevation) to max(FLOAT_FT - buffer, initial
\* elevation), or to 1.0 ft above the lower end when that maximum is not
\* above it
C28_OneSegmentAndBand ==
    PwlSolved =>
        LET lo == pwl_global_h_min(DefaultConfig, opt.initial_elev_ft)
            hi == pwl_global_h_max(DefaultConfig, opt.rows, opt.initial_elev_ft)
        IN  /\ Cardinality({k \in Segments : opt.seg[k] = 1}) = 1
            /\ \A k \in Segments : opt.seg[k] \in {0, 1}
            /\ lpSum(opt.lam, [i \in Points |-> 1], N_BREAKS) = LamSteps
            /\ \A i \in Points : opt.lam[i] # 0 => i \in {Selected, Selected + 1}
            /\ opt.H = lpSum(opt.lam, opt.pts.H, N_BREAKS) \div LamSteps
            /\ opt.A = lpSum(opt.lam, opt.pts.A, N_BREAKS) \div LamSteps
            /\ opt.H >= lo
            /\ opt.H <= (IF hi <= lo THEN lo + 100 ELSE hi)

\* a solution strictly inside a segment of an ordinary band, and a solution
\* of a band that min_elev, the float level and the initial elevation reduce
\* to one point
C28_Witness ==
    /\ PwlSolved
    /\ opt.lam[Selected] > 0 /\ opt.lam[Selected + 1] > 0
    /\ pwl_global_h_max(DefaultConfig, opt.rows, opt.initial_elev_ft)
         > pwl_global_h_min(DefaultConfig, opt.initial_elev_ft)

C28_WitnessOnePoint ==
    /\ PwlSolved
    /\ pwl_global_h_max(DefaultConfig, opt.rows, opt.initial_elev_ft)
         = pwl_global_h_min(DefaultConfig, opt.initial_elev_ft)

\* the statement as written: H within [min(min_elev, initial elevation),
\* max(FLOAT_FT - buffer, initial elevation)]
C28_BandAsStated ==
    PwlSolved =>
        /\ opt.H >= pwl_global_h_min(DefaultConfig, opt.initial_elev_ft)
        /\ opt.H <= pwl_global_h_max(DefaultConfig, opt.rows, opt.initial_elev_ft)

(***************************************************************************)
(* alerting.py and models.py: one active AlertThreshold row checked by     *)
(* check_all_alerts and check_user_alerts, which run in separate processes *)
(* (the Celery task, the run_alerts and monitor_alerts commands).  Times   *)
(* are minutes of timezone.now().                                          *)
(***************************************************************************)
MaxClock == 4
MaxAlertLogs == 3

Checkers == {"check_all_alerts", "check_user_alerts"}

\* models.py 539-558 and 667: the special_type and cooldown_minutes of the alert
CooldownMinutes == {2, 3}
SpecialTypes == {"standard", "rafting_ramp"}

\* models.py 702-709, AlertThreshold.is_in_cooldown
is_in_cooldown(alert, now) ==
    IF alert.last_triggered = NoTime THEN FALSE
    ELSE now < alert.last_triggered + alert.cooldown_minutes

AlertInit ==
    /\ alert_threshold \in
         {[now |-> 0,
           db |-> [last_triggered |-> NoTime, cooldown_minutes |-> c, special_type |-> s],
           logs |-> << >>,
           checker |-> [p \in Checkers |-> [pc |-> "idle",
                           alert |-> [last_triggered |-> NoTime, cooldown_minutes |-> c,
                                      special_type |-> s]]]] :
            c \in CooldownMinutes, s \in SpecialTypes}
    /\ df = << >> /\ overrides = {} /\ call = NoCall /\ opt = NoCall /\ phys = NoCall
    /\ ann = NoCall /\ bias24 = NoCall /\ optimization_run = NoCall

\* timezone.now() advances
Tick ==
    /\ alert_threshold.now < MaxClock
    /\ alert_threshold' = [alert_threshold EXCEPT !.now = @ + 1]
    /\ UNCHANGED <<df, overrides, call, opt, phys, ann, bias24, optimization_run>>

\* alerting.py 56-63 and 358-373: the loop over the queryset loads the rows
\* into instances
AlertFetch(p) ==
    /\ alert_threshold.checker[p].pc = "idle"
    /\ alert_threshold' = [alert_threshold EXCEPT
            !.checker[p] = [pc |-> "fetched", alert |-> alert_threshold.db]]
    /\ UNCHANGED <<df, overrides, call, opt, phys, ann, bias24, optimization_run>>

\* alerting.py 67 and 378 (check_condition) and 388-389
\* (_check_special_alert), each followed by "and not alert.is_in_cooldown()"
\* on the instance
AlertCheck(p, triggered) ==
    /\ alert_threshold.checker[p].pc = "fetched"
    /\ alert_threshold' = [alert_threshold EXCEPT
            !.checker[p].pc =
                IF triggered /\ ~ is_in_cooldown(alert_threshold.checker[p].alert,
                                                 alert_threshold.now)
                THEN "create" ELSE "idle"]
    /\ UNCHANGED <<df, overrides, call, opt, phys, ann, bias24, optimization_run>>

\* alerting.py 87-93 and 394-400: AlertLog.objects.create
AlertLogCreate(p) ==
    /\ alert_threshold.checker[p].pc = "create"
    /\ Len(alert_threshold.logs) < MaxAlertLogs
    /\ alert_threshold' = [alert_threshold EXCEPT
            !.logs = Append(@, alert_threshold.now),
            !.checker[p].pc = "save"]
    /\ UNCHANGED <<df, overrides, call, opt, phys, ann, bias24, optimization_run>>

\* alerting.py 95-97 and 402-404: alert.last_triggered = timezone.now();
\* alert.save()
AlertSave(p) ==
    /\ alert_threshold.checker[p].pc = "save"
    /\ LET saved == [alert_threshold.checker[p].alert EXCEPT
                        !.last_triggered = alert_threshold.now]
       IN  alert_threshold' = [alert_threshold EXCEPT
                !.db = saved,
                !.checker[p] = [pc |-> "idle", alert |-> saved]]
    /\ UNCHANGED <<df, overrides, call, opt, phys, ann, bias24, optimization_run>>

AlertNext ==
    \/ Tick
    \/ \E p \in Checkers : AlertFetch(p)
    \/ \E p \in Checkers, triggered \in BOOLEAN : AlertCheck(p, triggered)
    \/ \E p \in Checkers : AlertLogCreate(p)
    \/ \E p \in Checkers : AlertSave(p)

SpecAlerts == AlertInit /\ [][AlertNext]_vars

\* C29: between two consecutive triggers of the alert at least
\* cooldown_minutes elapse, for standard and special alerts, across
\* check_all_alerts and check_user_alerts, also when two checks run
\* concurrently.
C29_CooldownBetweenTriggers ==
    \A i \in 1 .. Len(alert_threshold.logs) - 1 :
        alert_threshold.logs[i + 1] - alert_threshold.logs[i]
            >= alert_threshold.db.cooldown_minutes

\* the same for a trigger of a check whose instance still equals the row and
\* holds the save of the trigger before: its AlertLog is at least
\* cooldown_minutes after the one before
CooldownKeptWhenAlone ==
    \A p \in Checkers :
        (/\ alert_threshold.checker[p].pc = "save"
         /\ alert_threshold.checker[p].alert = alert_threshold.db
         /\ Len(alert_threshold.logs) >= 2
         /\ alert_threshold.db.last_triggered
              >= alert_threshold.logs[Len(alert_threshold.logs) - 1])
        => alert_threshold.logs[Len(alert_threshold.logs)]
             - alert_threshold.logs[Len(alert_threshold.logs) - 1]
               >= alert_threshold.db.cooldown_minutes
=============================================================================
